---- MODULE Spec2Model ----
(***************************************************************************)
(* A model of the job polling and session-cache slice of the Sora 2        *)
(* Streamlit studio: the payload normalizer (lib/api.py), the polling loop *)
(* (lib/api.py) and the session history (lib/state.py).                    *)
(*                                                                         *)
(* Python values are tagged records [t |-> tag, v |-> value]; a str is a   *)
(* sequence of one-character strings, a dict a function from its keys, a   *)
(* list a sequence.  An operator that models a Python expression which can *)
(* raise returns Raised in that case, and a try/except is the test for it. *)
(***************************************************************************)
EXTENDS Integers, Sequences, FiniteSets, TLC

VARIABLES
    fn,         \* normalizer: the function under call ("none" when idle)
    arg,        \* normalizer: its argument
    ret,        \* normalizer: what it returned (Pending before the call)
    ret_id,     \* normalizer: what safe_get_id returned for the same argument
    pc,         \* poll_until_complete: "idle", "polling", "returned", "raised"
    on_tick_given,  \* poll_until_complete: whether on_tick is callable
    calls,      \* the number of client.videos.retrieve calls made
    fetched,    \* the jobs retrieve has returned, in order
    ticks,      \* the arguments on_tick was invoked with, in order
    result,     \* what poll_until_complete returned (Pending before)
    err,        \* the exception that left poll_until_complete
    history,    \* st.session_state["video_history"], newest first
    n_fresh,    \* how many of the ids upserted only once have been used
    last_call,  \* the last history call made and its arguments
    pristine,   \* whether every call so far was an upsert of a new id
    upsert_log, \* while pristine: the ids upserted so far, oldest first
    busy,       \* st.session_state["busy"]
    jobs_cache, \* st.session_state["jobs_cache"]: the record cached under each id
    session,    \* the other keys of st.session_state the pages write
    running,    \* the handler the script thread is in, and its locals
    net,        \* the calls made on the API client so far, oldest first
    cache_log   \* the records passed to cache_job so far, oldest first

normVars == <<fn, arg, ret, ret_id>>

pollVars == <<pc, on_tick_given, calls, fetched, ticks, result, err>>

histVars == <<history, n_fresh, last_call, pristine, upsert_log>>

sessVars == <<busy, jobs_cache, session, running, net, cache_log>>

vars == <<normVars, pollVars, histVars, sessVars>>

(***************************************************************************)
(* Python values                                                           *)
(***************************************************************************)
None == [t |-> "none", v |-> 0]

PInt(n) == [t |-> "int", v |-> n]

PBool(b) == [t |-> "bool", v |-> b]

\* a finite float, kept in tenths: PFloat(407) is 40.7
PFloat(tenths) == [t |-> "float", v |-> <<"fin", tenths>>]

NaN == [t |-> "float", v |-> <<"nan", 0>>]

Inf == [t |-> "float", v |-> <<"inf", 1>>]

PStr(s) == [t |-> "str", v |-> s]

PList(s) == [t |-> "list", v |-> s]

PDict(f) == [t |-> "dict", v |-> f]

\* an attribute object (an SDK model): its instance fields and what its
\* model_dump method does ("none": no such method, "ok", "raises")
PObj(fields, dump) == [t |-> "obj", v |-> <<fields, dump>>]

\* the outcome of an expression that raised
Raised == [t |-> "raise", v |-> 0]

\* no result yet
Pending == [t |-> "pending", v |-> 0]

EmptyDict == PDict(<<>>)

\* dict.get(key, default)
dict_get(d, key, default) == IF key \in DOMAIN d.v THEN d.v[key] ELSE default

\* isinstance(x, (int, float, str)); a bool is an int
IsIntFloatStr(x) == x.t \in {"int", "bool", "float", "str"}

\* isinstance(x, (str, int))
IsStrInt(x) == x.t \in {"str", "int", "bool"}

\* bool(x)
Truthy(x) ==
    CASE x.t = "none" -> FALSE
      [] x.t = "int" -> x.v # 0
      [] x.t = "bool" -> x.v
      [] x.t = "float" -> x.v # <<"fin", 0>>
      [] x.t \in {"str", "list"} -> Len(x.v) > 0
      [] x.t = "dict" -> DOMAIN x.v # {}
      [] x.t = "obj" -> TRUE

(***************************************************************************)
(* str(x), int(x) and str.lower()                                          *)
(***************************************************************************)
Digits == <<"0", "1", "2", "3", "4", "5", "6", "7", "8", "9">>

UpperCase ==
    <<"A", "B", "C", "D", "E", "F", "G", "H", "I", "J", "K", "L", "M",
      "N", "O", "P", "Q", "R", "S", "T", "U", "V", "W", "X", "Y", "Z">>

LowerCase ==
    <<"a", "b", "c", "d", "e", "f", "g", "h", "i", "j", "k", "l", "m",
      "n", "o", "p", "q", "r", "s", "t", "u", "v", "w", "x", "y", "z">>

IsDigit(c) == \E i \in DOMAIN Digits : Digits[i] = c

DigitVal(c) == (CHOOSE i \in DOMAIN Digits : Digits[i] = c) - 1

IsSpace(c) == c \in {" ", "\t", "\n"}

lower_char(c) ==
    IF \E i \in DOMAIN UpperCase : UpperCase[i] = c
    THEN LowerCase[CHOOSE i \in DOMAIN UpperCase : UpperCase[i] = c]
    ELSE c

\* s.lower()
lower(s) == [i \in DOMAIN s |-> lower_char(s[i])]

\* s.startswith(prefix)
startswith(s, prefix) ==
    Len(s) >= Len(prefix) /\ SubSeq(s, 1, Len(prefix)) = prefix

RECURSIVE NatToStr(_)
NatToStr(n) ==
    IF n < 10 THEN <<Digits[n + 1]>>
    ELSE NatToStr(n \div 10) \o <<Digits[(n % 10) + 1]>>

IntToStr(n) == IF n < 0 THEN <<"-">> \o NatToStr(-n) ELSE NatToStr(n)

\* str(f) for a float kept in tenths
FloatToStr(f) ==
    CASE f[1] = "nan" -> <<"n", "a", "n">>
      [] f[1] = "inf" -> <<"i", "n", "f">>
      [] f[2] >= 0 -> NatToStr(f[2] \div 10) \o <<".">> \o NatToStr(f[2] % 10)
      [] OTHER -> <<"-">> \o NatToStr((0 - f[2]) \div 10) \o <<".">>
                      \o NatToStr((0 - f[2]) % 10)

RECURSIVE py_repr(_)
RECURSIVE JoinReprs(_)
\* ", ".join(repr(e) for e in items)
JoinReprs(items) ==
    IF items = <<>> THEN <<>>
    ELSE IF Len(items) = 1 THEN py_repr(items[1])
    ELSE py_repr(items[1]) \o <<",", " ">> \o JoinReprs(Tail(items))

\* repr(x); the text between the braces of a dict and the brackets of an
\* object is left out: no caller reads past the first character of it
py_repr(x) ==
    CASE x.t = "str" -> <<"'">> \o x.v \o <<"'">>
      [] x.t = "int" -> IntToStr(x.v)
      [] x.t = "bool" -> IF x.v THEN <<"T", "r", "u", "e">>
                         ELSE <<"F", "a", "l", "s", "e">>
      [] x.t = "none" -> <<"N", "o", "n", "e">>
      [] x.t = "float" -> FloatToStr(x.v)
      [] x.t = "list" -> <<"[">> \o JoinReprs(x.v) \o <<"]">>
      [] x.t = "dict" -> <<"{", "}">>
      [] x.t = "obj" -> <<"<", ">">>

\* str(x)
py_str(x) == IF x.t = "str" THEN x.v ELSE py_repr(x)

RECURSIVE lstrip(_)
lstrip(s) == IF s # <<>> /\ IsSpace(Head(s)) THEN lstrip(Tail(s)) ELSE s

RECURSIVE rstrip(_)
rstrip(s) ==
    IF s # <<>> /\ IsSpace(s[Len(s)]) THEN rstrip(SubSeq(s, 1, Len(s) - 1))
    ELSE s

strip(s) == rstrip(lstrip(s))

\* the digits of an integer literal: digits, with single underscores
\* allowed between two digits
IsDigitString(s) ==
    /\ s # <<>>
    /\ IsDigit(s[1]) /\ IsDigit(s[Len(s)])
    /\ \A i \in DOMAIN s : IsDigit(s[i]) \/ s[i] = "_"
    /\ \A i \in 1..(Len(s) - 1) : ~(s[i] = "_" /\ s[i + 1] = "_")

RECURSIVE DigitsValue(_, _)
DigitsValue(s, acc) ==
    IF s = <<>> THEN acc
    ELSE IF Head(s) = "_" THEN DigitsValue(Tail(s), acc)
    ELSE DigitsValue(Tail(s), 10 * acc + DigitVal(Head(s)))

\* int(s) for a str: surrounding whitespace, an optional sign, the digits;
\* anything else is a ValueError
int_of_str(s) ==
    LET body == strip(s)
        signed == body # <<>> /\ Head(body) \in {"+", "-"}
        digits == IF signed THEN Tail(body) ELSE body
    IN  IF ~IsDigitString(digits) THEN Raised
        ELSE IF signed /\ Head(body) = "-"
        THEN PInt(0 - DigitsValue(digits, 0))
        ELSE PInt(DigitsValue(digits, 0))

\* int(f) for a float: truncation toward zero; OverflowError for an
\* infinity and ValueError for a NaN
int_of_float(f) ==
    IF f[1] # "fin" THEN Raised
    ELSE IF f[2] >= 0 THEN PInt(f[2] \div 10)
    ELSE PInt(0 - ((0 - f[2]) \div 10))

\* int(x)
py_int(x) ==
    CASE x.t = "int" -> x
      [] x.t = "bool" -> PInt(IF x.v THEN 1 ELSE 0)
      [] x.t = "float" -> int_of_float(x.v)
      [] x.t = "str" -> int_of_str(x.v)
      [] OTHER -> Raised

Min(a, b) == IF a <= b THEN a ELSE b

Max(a, b) == IF a >= b THEN a ELSE b

(***************************************************************************)
(* lib/api.py: get_progress_percent                                        *)
(***************************************************************************)
SuccessAliases ==
    { <<"s", "u", "c", "c", "e", "e", "d", "e", "d">>,
      <<"c", "o", "m", "p", "l", "e", "t", "e", "d">>,
      <<"c", "o", "m", "p", "l", "e", "t", "e">> }

FailureAliases ==
    { <<"f", "a", "i", "l", "e", "d">>,
      <<"e", "r", "r", "o", "r">>,
      <<"c", "a", "n", "c", "e", "l", "e", "d">>,
      <<"c", "a", "n", "c", "e", "l", "l", "e", "d">> }

PendingAliases ==
    { <<"q", "u", "e", "u", "e", "d">>,
      <<"i", "n", "_", "p", "r", "o", "g", "r", "e", "s", "s">> }

\* str(job.get("status", "")).lower()
status_of(job) == lower(py_str(dict_get(job, "status", PStr(<<>>))))

\* max(0, min(100, int(x))) inside try/except: Raised when int(x) raises
clamped_int(x) ==
    IF py_int(x) = Raised THEN Raised
    ELSE PInt(Max(0, Min(100, py_int(x).v)))

\* the same with every terminal status, failed ones too, taken for 100
status_progress_terminal_full(status) ==
    IF status \in PendingAliases THEN PInt(0)
    ELSE IF status \in SuccessAliases \cup FailureAliases THEN PInt(100)
    ELSE PInt(0)

\* the status-based fallback, lines 80-85
status_progress(status) ==
    IF status \in PendingAliases THEN PInt(0)
    ELSE IF status \in SuccessAliases THEN PInt(100)
    ELSE PInt(0)

\* the same with the bounds of the clamp left out
get_progress_percent_unclamped(job) ==
    LET p == dict_get(job, "progress", None)
        alt == dict_get(job, "percent_complete", None)
    IN  IF IsIntFloatStr(p) /\ py_int(p) # Raised THEN py_int(p)
        ELSE IF IsIntFloatStr(alt) /\ py_int(alt) # Raised THEN py_int(alt)
        ELSE status_progress(status_of(job))

\* the same with the two fields consulted in the other order
get_progress_percent_alt_first(job) ==
    LET p == dict_get(job, "progress", None)
        alt == dict_get(job, "percent_complete", None)
    IN  IF IsIntFloatStr(alt) /\ clamped_int(alt) # Raised THEN clamped_int(alt)
        ELSE IF IsIntFloatStr(p) /\ clamped_int(p) # Raised THEN clamped_int(p)
        ELSE status_progress(status_of(job))

get_progress_percent(job) ==
    LET p == dict_get(job, "progress", None)
        alt == dict_get(job, "percent_complete", None)
    IN  IF IsIntFloatStr(p) /\ clamped_int(p) # Raised THEN clamped_int(p)
        ELSE IF IsIntFloatStr(alt) /\ clamped_int(alt) # Raised THEN clamped_int(alt)
        ELSE status_progress(status_of(job))

(***************************************************************************)
(* The payloads handed to get_progress_percent                             *)
(***************************************************************************)
\* the longest str drawn for a progress field
MaxStrLen == 3

StrAlphabet == {"7", "-", " "}

Strs(n) == UNION { [1..k -> StrAlphabet] : k \in 0..n }

\* marks a key the payload does not have; never a value of a payload
Absent == [t |-> "absent", v |-> 0]

\* a dict of the given <<key, value>> pairs, the Absent ones left out
MakeDict(pairs) ==
    LET present == { kv \in pairs : kv[2] # Absent }
    IN  PDict([k \in { kv[1] : kv \in present } |->
                  (CHOOSE kv \in present : kv[1] = k)[2]])

ProgressValues ==
    { Absent, None, PBool(TRUE), PInt(-5), PInt(40), PInt(150),
      PFloat(407), PFloat(-5), PFloat(1507), NaN, Inf, PList(<<>>) }
    \cup { PStr(s) : s \in Strs(MaxStrLen) }

StatusValues ==
    { Absent, None, PInt(3),
      PStr(<<"q", "u", "e", "u", "e", "d">>),
      PStr(<<"I", "n", "_", "P", "r", "o", "g", "r", "e", "s", "s">>),
      PStr(<<"S", "u", "c", "c", "e", "e", "d", "e", "d">>),
      PStr(<<"C", "O", "M", "P", "L", "E", "T", "E", "D">>),
      PStr(<<"c", "o", "m", "p", "l", "e", "t", "e">>),
      PStr(<<"f", "a", "i", "l", "e", "d">>),
      PStr(<<"r", "e", "n", "d", "e", "r", "i", "n", "g">>),
      PList(<<>>), PList(<<None>>) }

ProgressJobs ==
    { MakeDict({ <<"progress", p>>, <<"percent_complete", a>>, <<"status", s>> }) :
        p \in ProgressValues, a \in ProgressValues, s \in StatusValues }

NoError == [kind |-> "none", status |-> <<>>, details |-> <<>>]

\* no poll under way
PollIdle ==
    /\ pc = "idle"
    /\ on_tick_given = FALSE
    /\ calls = 0
    /\ fetched = <<>>
    /\ ticks = <<>>
    /\ result = Pending
    /\ err = NoError

NoCall ==
    [op |-> "none", id |-> Absent, job |-> None, prompt |-> None, source |-> "",
     existed |-> FALSE]

\* the session as ensure_session_defaults leaves it: an empty history
HistoryEmpty ==
    /\ history = <<>>
    /\ n_fresh = 0
    /\ last_call = NoCall
    /\ pristine = TRUE
    /\ upsert_log = <<>>

\* no normalizer call under way
NormIdle ==
    /\ fn = "none"
    /\ arg = None
    /\ ret = Pending
    /\ ret_id = Pending

\* the keys the pages add to st.session_state, with their defaults
SessionDefaults ==
    [ create_validation_error |-> "",
      create_last_job |-> None,
      jobs_rows |-> <<>>,
      jobs_selected_id |-> None,
      jobs_selected_job |-> None,
      jobs_selected_media_url |-> None,
      jobs_selected_media_bytes |-> None,
      jobs_pending_delete |-> None,
      jobs_download_payload |-> None,
      jobs_next_after |-> None,
      jobs_has_more |-> FALSE,
      jobs_last_error |-> "",
      jobs_loaded_once |-> FALSE ]

\* the script thread between two handlers
NoHandler == [name |-> "none", at |-> "idle"]

\* the session as ensure_session_defaults leaves it, with no handler running
\* and no call made on the client
SessionIdle ==
    /\ busy = FALSE
    /\ jobs_cache = <<>>
    /\ session = SessionDefaults
    /\ running = NoHandler
    /\ net = <<>>
    /\ cache_log = <<>>

InitProgress ==
    /\ fn = "get_progress_percent"
    /\ arg \in ProgressJobs
    /\ ret = Pending
    /\ ret_id = Pending
    /\ PollIdle
    /\ HistoryEmpty
    /\ SessionIdle

Call_get_progress_percent ==
    /\ fn = "get_progress_percent"
    /\ ret = Pending
    /\ ret' = get_progress_percent(arg)
    /\ UNCHANGED <<fn, arg, ret_id, pollVars, histVars, sessVars>>

ProgressDone == fn = "get_progress_percent" /\ ret # Pending

\* C6: whatever the payload holds, get_progress_percent returns an integer
\* between 0 and 100.
C6_ProgressInRange ==
    ProgressDone => ret.t = "int" /\ ret.v \in 0..100

\* a payload whose progress is above 100 and one whose progress is a
\* negative number in a str have been normalized
C6_Witness ==
    /\ ProgressDone
    /\ dict_get(arg, "progress", None) = PStr(<<"7", "7", "7">>)
    /\ dict_get(arg, "percent_complete", None) = PInt(-5)
    /\ ret = PInt(100)

\* what the claims call "that value clamped to [0,100]"
ClampTo(n) == IF n < 0 THEN 0 ELSE IF n > 100 THEN 100 ELSE n

\* the field holds a value int() turns into an integer
Converts(x) == IsIntFloatStr(x) /\ py_int(x) # Raised

\* the payload with nothing but its progress field
OnlyProgress(job) == MakeDict({ <<"progress", dict_get(job, "progress", Absent)>> })

\* C7 as stated: an int, float or str progress field decides the result,
\* whatever percent_complete and status are.
C7_AsStated ==
    (ProgressDone /\ IsIntFloatStr(dict_get(arg, "progress", None)))
        => ret = get_progress_percent(OnlyProgress(arg))

\* C7 as amended: a progress field that int() converts decides the result
\* (truncated toward zero, then clamped); failing that a percent_complete
\* field that int() converts decides it; only failing both is the status
\* fallback used.
C7_Precedence ==
    ProgressDone =>
        LET p == dict_get(arg, "progress", None)
            alt == dict_get(arg, "percent_complete", None)
        IN  /\ Converts(p) => ret = PInt(ClampTo(py_int(p).v))
            /\ (~Converts(p) /\ Converts(alt)) => ret = PInt(ClampTo(py_int(alt).v))
            /\ (~Converts(p) /\ ~Converts(alt)) =>
                   ret = PInt(IF status_of(arg) \in SuccessAliases THEN 100 ELSE 0)

\* a str progress that is no integer literal was passed over for a
\* percent_complete above 100
C7_Witness ==
    /\ ProgressDone
    /\ dict_get(arg, "progress", None) = PStr(<<"-">>)
    /\ dict_get(arg, "percent_complete", None) = PInt(150)
    /\ ret = PInt(100)

(***************************************************************************)
(* lib/api.py: extract_asset_url                                           *)
(***************************************************************************)
\* x[0]: IndexError on an empty list or str, KeyError on a dict (its keys
\* are strs), TypeError on anything else
index0(x) ==
    CASE x.t = "list" -> IF Len(x.v) > 0 THEN x.v[1] ELSE Raised
      [] x.t = "str" -> IF Len(x.v) > 0 THEN PStr(<<x.v[1]>>) ELSE Raised
      [] OTHER -> Raised

\* x.get(key, default), x any value or an expression that raised:
\* AttributeError unless x is a dict
method_get(x, key, default) ==
    IF x.t = "dict" THEN dict_get(x, key, default) ELSE Raised

\* isinstance(url, str) and url.startswith("http")
IsHttpStr(url) == url.t = "str" /\ startswith(url.v, <<"h", "t", "t", "p">>)

\* job.get("assets", [{}])[0].get("url")
first_asset_url(job) ==
    method_get(index0(dict_get(job, "assets", PList(<<EmptyDict>>))), "url", None)

\* job.get("output", [{}])[0].get("url")
first_output_url(job) ==
    method_get(index0(dict_get(job, "output", PList(<<EmptyDict>>))), "url", None)

\* (job.get("assets") or {}).get("video", {}).get("url")
video_asset_url(job) ==
    LET assets == dict_get(job, "assets", None)
        holder == IF Truthy(assets) THEN assets ELSE EmptyDict
    IN  method_get(method_get(holder, "video", EmptyDict), "url", None)

\* the same with download_url tried before the two lists
extract_asset_url_download_first(job) ==
    LET u1 == first_asset_url(job)
        u2 == first_output_url(job)
        u3 == dict_get(job, "download_url", None)
        u4 == video_asset_url(job)
    IN  IF IsHttpStr(u3) THEN u3
        ELSE IF IsHttpStr(u1) THEN u1
        ELSE IF IsHttpStr(u2) THEN u2
        ELSE IF IsHttpStr(u4) THEN u4
        ELSE None

\* the same with the last lookup outside any try
extract_asset_url_no_except(job) ==
    LET u1 == first_asset_url(job)
        u2 == first_output_url(job)
        u3 == dict_get(job, "download_url", None)
        u4 == video_asset_url(job)
    IN  IF IsHttpStr(u1) THEN u1
        ELSE IF IsHttpStr(u2) THEN u2
        ELSE IF IsHttpStr(u3) THEN u3
        ELSE IF u4 = Raised THEN Raised
        ELSE IF IsHttpStr(u4) THEN u4
        ELSE None

\* each try block yields its url when the lookup did not raise and the
\* value qualifies, and falls through otherwise (except Exception: pass)
extract_asset_url(job) ==
    LET u1 == first_asset_url(job)
        u2 == first_output_url(job)
        u3 == dict_get(job, "download_url", None)
        u4 == video_asset_url(job)
    IN  IF u1 # Raised /\ IsHttpStr(u1) THEN u1
        ELSE IF u2 # Raised /\ IsHttpStr(u2) THEN u2
        ELSE IF IsHttpStr(u3) THEN u3
        ELSE IF u4 # Raised /\ IsHttpStr(u4) THEN u4
        ELSE None

(***************************************************************************)
(* The payloads handed to extract_asset_url                                *)
(***************************************************************************)
HttpA == PStr(<<"h", "t", "t", "p">>)

HttpB == PStr(<<"h", "t", "t", "p", "s">>)

NotHttp == PStr(<<"h", "t", "t">>)

UrlValues == { HttpA, HttpB, NotHttp, None }

\* the mappings found in a payload: with a url, with a video, with neither
AssetItems ==
    { EmptyDict }
    \cup { MakeDict({ <<"url", u>> }) : u \in UrlValues }
    \cup { MakeDict({ <<"video", MakeDict({ <<"url", u>> })>> }) : u \in UrlValues }
    \cup { MakeDict({ <<"video", None>> }), MakeDict({ <<"video", HttpA>> }),
           MakeDict({ <<"video", PList(<<MakeDict({ <<"url", HttpA>> })>>)>> }) }

ListElements == AssetItems \cup { None, HttpA }

AssetLists ==
    { PList(<<>>) }
    \cup { PList(<<e>>) : e \in ListElements }
    \cup { PList(<<None, MakeDict({ <<"url", HttpA>> })>>),
           PList(<<MakeDict({ <<"url", HttpB>> }), MakeDict({ <<"url", HttpA>> })>>) }

Scalars == { Absent, None, PInt(0), PInt(7), HttpA, PStr(<<>>) }

AssetsValues == Scalars \cup AssetLists \cup AssetItems

OutputValues == Scalars \cup AssetLists \cup { MakeDict({ <<"url", HttpA>> }) }

DownloadValues == { Absent, PInt(7), PList(<<HttpA>>) } \cup UrlValues

UrlJobs ==
    { MakeDict({ <<"assets", a>>, <<"output", o>>, <<"download_url", d>> }) :
        a \in AssetsValues, o \in OutputValues, d \in DownloadValues }

InitUrl ==
    /\ fn = "extract_asset_url"
    /\ arg \in UrlJobs
    /\ ret = Pending
    /\ ret_id = Pending
    /\ PollIdle
    /\ HistoryEmpty
    /\ SessionIdle

Call_extract_asset_url ==
    /\ fn = "extract_asset_url"
    /\ ret = Pending
    /\ ret' = extract_asset_url(arg)
    /\ UNCHANGED <<fn, arg, ret_id, pollVars, histVars, sessVars>>

UrlDone == fn = "extract_asset_url" /\ ret # Pending

HasKey(d, key) == d.t = "dict" /\ key \in DOMAIN d.v

\* the four candidates, each the value found at its path or Absent when
\* the payload has no such path
AssetsListUrl(job) ==
    IF /\ HasKey(job, "assets") /\ job.v["assets"].t = "list"
       /\ Len(job.v["assets"].v) > 0 /\ HasKey(job.v["assets"].v[1], "url")
    THEN job.v["assets"].v[1].v["url"] ELSE Absent

OutputListUrl(job) ==
    IF /\ HasKey(job, "output") /\ job.v["output"].t = "list"
       /\ Len(job.v["output"].v) > 0 /\ HasKey(job.v["output"].v[1], "url")
    THEN job.v["output"].v[1].v["url"] ELSE Absent

DownloadUrl(job) ==
    IF HasKey(job, "download_url") THEN job.v["download_url"] ELSE Absent

AssetsVideoUrl(job) ==
    IF /\ HasKey(job, "assets") /\ HasKey(job.v["assets"], "video")
       /\ HasKey(job.v["assets"].v["video"], "url")
    THEN job.v["assets"].v["video"].v["url"] ELSE Absent

Candidates(job) ==
    <<AssetsListUrl(job), OutputListUrl(job), DownloadUrl(job), AssetsVideoUrl(job)>>

\* a str starting with "http"
Qualifies(u) ==
    u.t = "str" /\ Len(u.v) >= 4 /\ <<u.v[1], u.v[2], u.v[3], u.v[4]>> = <<"h", "t", "t", "p">>

\* C8: extract_asset_url returns the first of assets[0].url, output[0].url,
\* download_url, assets.video.url that is a str starting with "http", and
\* none when no candidate qualifies.
C8_FirstQualifyingUrl ==
    UrlDone =>
        LET c == Candidates(arg)
            hits == { i \in 1..4 : Qualifies(c[i]) }
        IN  IF hits = {} THEN ret = None
            ELSE ret = c[CHOOSE i \in hits : \A j \in hits : i <= j]

\* the fourth shape yielded its url although output[0].url and download_url
\* are present and do not qualify
C8_Witness ==
    /\ UrlDone
    /\ AssetsVideoUrl(arg) = HttpB
    /\ OutputListUrl(arg) = NotHttp
    /\ DownloadUrl(arg) = None
    /\ ret = HttpB

(***************************************************************************)
(* lib/api.py: to_dict and safe_get_id                                     *)
(***************************************************************************)
\* the same without the wrapping of a bare str or int (lines 34-35)
to_dict_no_scalar_wrap(obj) ==
    CASE obj.t = "none" -> EmptyDict
      [] obj.t = "dict" -> obj
      [] obj.t = "obj" -> PDict(obj.v[1])
      [] OTHER -> PDict([value |-> obj])

\* None; a Mapping; an object with a model_dump method that returns its
\* fields, or one that raises and leaves the fields to __dict__; a bare str
\* or int; anything else
to_dict(obj) ==
    CASE obj.t = "none" -> EmptyDict
      [] obj.t = "dict" -> obj
      [] obj.t = "obj" /\ obj.v[2] = "ok" -> PDict(obj.v[1])
      [] obj.t = "obj" /\ obj.v[2] # "ok" -> PDict(obj.v[1])
      [] IsStrInt(obj) -> PDict([id |-> PStr(py_str(obj))])
      [] OTHER -> PDict([value |-> obj])

\* hasattr(obj, "id"): an attribute object that has the field
has_id_attr(obj) == obj.t = "obj" /\ "id" \in DOMAIN obj.v[1]

safe_get_id(obj) ==
    IF obj.t = "none" THEN None
    ELSE IF IsStrInt(obj) THEN PStr(py_str(obj))
    ELSE IF has_id_attr(obj) /\ IsStrInt(obj.v[1]["id"])
    THEN PStr(py_str(obj.v[1]["id"]))
    ELSE LET vid == dict_get(to_dict(obj), "id", None)
         IN  IF IsStrInt(vid) THEN PStr(py_str(vid)) ELSE None

(***************************************************************************)
(* The raw payloads handed to to_dict and safe_get_id                      *)
(***************************************************************************)
VideoId == PStr(<<"v", "1">>)

IdValues ==
    { Absent, None, VideoId, PStr(<<>>), PInt(7), PInt(0), PBool(TRUE),
      PFloat(70), PList(<<VideoId>>) }

Fields(id) ==
    MakeDict({ <<"id", id>>, <<"status", PStr(<<"q", "u", "e", "u", "e", "d">>)>> }).v

\* a mapping, an attribute object, a bare str or int, and what is none of
\* the three
Mappings == { PDict(Fields(id)) : id \in IdValues } \cup { EmptyDict }

AttrObjects ==
    { PObj(Fields(id), dump) : id \in IdValues, dump \in {"none", "ok", "raises"} }

BareIds == { VideoId, PStr(<<>>), PInt(7), PInt(0), PInt(-7), PBool(TRUE) }

RawPayloads == Mappings \cup AttrObjects \cup BareIds \cup { None, PFloat(70), PList(<<>>) }

InitShape ==
    /\ fn = "to_dict"
    /\ arg \in RawPayloads
    /\ ret = Pending
    /\ ret_id = Pending
    /\ PollIdle
    /\ HistoryEmpty
    /\ SessionIdle

Call_to_dict ==
    /\ fn = "to_dict"
    /\ ret = Pending
    /\ ret' = to_dict(arg)
    /\ UNCHANGED <<fn, arg, ret_id, pollVars, histVars, sessVars>>

Call_safe_get_id ==
    /\ fn = "to_dict"
    /\ ret_id = Pending
    /\ ret_id' = safe_get_id(arg)
    /\ UNCHANGED <<fn, arg, ret, pollVars, histVars, sessVars>>

(***************************************************************************)
(* The normalizer: each function applied once to a payload                 *)
(***************************************************************************)
InitNorm == InitProgress \/ InitUrl \/ InitShape

NextNorm ==
    \/ Call_get_progress_percent
    \/ Call_extract_asset_url
    \/ Call_to_dict
    \/ Call_safe_get_id

SpecNorm == InitNorm /\ [][NextNorm]_vars

\* C9: handed a mapping whose fields are absent, null or of an unexpected
\* type, get_progress_percent returns a percentage and extract_asset_url a
\* url or none; neither raises.
C9_NormalizerNeverRaises ==
    /\ ProgressDone => ret # Raised /\ ret.t = "int"
    /\ UrlDone => ret # Raised /\ (ret = None \/ ret.t = "str")

\* a payload whose assets is a list of a non-mapping, whose output is null
\* and whose download_url is a number gave none
C9_Witness ==
    /\ UrlDone
    /\ dict_get(arg, "assets", Absent) = PList(<<None>>)
    /\ dict_get(arg, "output", Absent) = None
    /\ dict_get(arg, "download_url", Absent) = PInt(7)
    /\ ret = None

ShapeDone == fn = "to_dict" /\ ret # Pending /\ ret_id # Pending

IsShape(x) == x.t \in {"dict", "obj"} \/ IsStrInt(x)

\* C10 as stated: to_dict returns a mapping for each shape, and when
\* safe_get_id derives an id that mapping has an id field equal to it.
C10_AsStated ==
    (ShapeDone /\ IsShape(arg)) =>
        /\ ret.t = "dict"
        /\ ret_id # None => (HasKey(ret, "id") /\ ret.v["id"] = ret_id)

\* C10 as amended: the id field of the mapping is the id as the payload
\* gave it, a str or an int, and the derived id is its str() form.
C10_IdFieldAgrees ==
    (ShapeDone /\ IsShape(arg)) =>
        /\ ret # Raised /\ ret_id # Raised
        /\ ret.t = "dict"
        /\ ret_id # None =>
              /\ ret_id.t = "str"
              /\ HasKey(ret, "id")
              /\ ret.v["id"].t \in {"str", "int", "bool"}
              /\ IF ret.v["id"].t = "str" THEN ret.v["id"] = ret_id
                 ELSE py_repr(ret.v["id"]) = ret_id.v

\* a bare integer id and an attribute object with an integer id, whose
\* model_dump raises, were both normalized
C10_Witness ==
    /\ ShapeDone
    /\ \/ arg = PInt(7) /\ ret = PDict([id |-> PStr(<<"7">>)])
       \/ arg = PObj(Fields(PInt(7)), "raises") /\ ret = PDict(Fields(PInt(7)))
    /\ ret_id = PStr(<<"7">>)

(***************************************************************************)
(* json.dumps, as far as the payloads of a job reach                       *)
(***************************************************************************)
\* the keys of a payload, in the order the SDK model declares them
KeyOrder == <<"id", "status", "progress", "percent_complete", "prompt", "url">>

RECURSIVE Serializable(_)
\* what json.dumps accepts: None, bool, int, float, str, list and dict
Serializable(x) ==
    CASE x.t \in {"none", "bool", "int", "float", "str"} -> TRUE
      [] x.t = "list" -> \A i \in DOMAIN x.v : Serializable(x.v[i])
      [] x.t = "dict" -> \A k \in DOMAIN x.v : Serializable(x.v[k])
      [] OTHER -> FALSE

RECURSIVE json_text(_)
RECURSIVE json_items(_)
RECURSIVE json_members(_, _)
json_items(items) ==
    IF items = <<>> THEN <<>>
    ELSE IF Len(items) = 1 THEN json_text(items[1])
    ELSE json_text(items[1]) \o <<",">> \o json_items(Tail(items))

json_members(d, keys) ==
    IF keys = <<>> THEN <<>>
    ELSE LET member == <<"\"", Head(keys), "\"", ":">> \o json_text(d[Head(keys)])
         IN  IF Len(keys) = 1 THEN member
             ELSE member \o <<",">> \o json_members(d, Tail(keys))

\* the text of a serializable value, a sequence of characters and keys
json_text(x) ==
    CASE x.t = "none" -> <<"n", "u", "l", "l">>
      [] x.t = "bool" -> IF x.v THEN <<"t", "r", "u", "e">>
                         ELSE <<"f", "a", "l", "s", "e">>
      [] x.t = "int" -> IntToStr(x.v)
      [] x.t = "float" ->
            IF x.v[1] = "nan" THEN <<"N", "a", "N">>
            ELSE IF x.v[1] = "inf" THEN <<"I", "n", "f", "i", "n", "i", "t", "y">>
            ELSE FloatToStr(x.v)
      [] x.t = "str" -> <<"\"">> \o x.v \o <<"\"">>
      [] x.t = "list" -> <<"[">> \o json_items(x.v) \o <<"]">>
      [] x.t = "dict" ->
            <<"{">> \o json_members(x.v, SelectSeq(KeyOrder, LAMBDA k : k \in DOMAIN x.v))
                \o <<"}">>

\* json.dumps(x, indent=2): TypeError on a value that is not serializable
json_dumps(x) == IF Serializable(x) THEN json_text(x) ELSE Raised

(***************************************************************************)
(* lib/api.py: poll_until_complete                                         *)
(***************************************************************************)
\* the most retrieve calls one poll is followed for
MaxPolls == 4

\* the same with the status compared as the server spelled it
poll_outcome_case_sensitive(job_dict) ==
    LET status == py_str(dict_get(job_dict, "status", PStr(<<>>)))
    IN  IF status \in SuccessAliases THEN "returned"
        ELSE IF status \in FailureAliases THEN "raised"
        ELSE "polling"

\* the same with every terminal status taken for a success
poll_outcome_failure_returns(job_dict) ==
    LET status == status_of(job_dict)
    IN  IF status \in SuccessAliases \cup FailureAliases THEN "returned"
        ELSE "polling"

\* the same with a failed job polled again
poll_outcome_failure_polls_on(job_dict) ==
    LET status == status_of(job_dict)
    IN  IF status \in SuccessAliases THEN "returned"
        ELSE "polling"

\* lines 103-108: where the loop goes after a tick
poll_outcome(job_dict) ==
    LET status == status_of(job_dict)
    IN  IF status \in SuccessAliases THEN "returned"
        ELSE IF status \in FailureAliases THEN "raised"
        ELSE "polling"

\* line 107: the RuntimeError of a failed job, its message made of the
\* status and the dumped payload; the TypeError of a payload json.dumps
\* refuses
job_failed_error(job_dict) ==
    IF json_dumps(job_dict) = Raised
    THEN [kind |-> "TypeError", status |-> <<>>, details |-> <<>>]
    ELSE [kind |-> "JobFailed", status |-> status_of(job_dict),
          details |-> json_dumps(job_dict)]

TransportError == [kind |-> "TransportError", status |-> <<>>, details |-> <<>>]

CallbackError == [kind |-> "CallbackError", status |-> <<>>, details |-> <<>>]

\* what client.videos.retrieve returns: an SDK model of the job
Job(status, progress) ==
    PObj(MakeDict({ <<"id", VideoId>>, <<"status", status>>, <<"progress", progress>> }).v,
         "ok")

Responses ==
    { Job(PStr(<<"q", "u", "e", "u", "e", "d">>), PInt(0)),
      Job(PStr(<<"i", "n", "_", "p", "r", "o", "g", "r", "e", "s", "s">>), PInt(40)),
      Job(PStr(<<"I", "n", "_", "P", "r", "o", "g", "r", "e", "s", "s">>), PInt(90)),
      Job(Absent, Absent),
      Job(None, PInt(100)),
      Job(PStr(<<"s", "u", "c", "c", "e", "e", "d", "e", "d">>), PInt(100)),
      Job(PStr(<<"C", "o", "m", "p", "l", "e", "t", "e", "d">>), Absent),
      Job(PStr(<<"c", "o", "m", "p", "l", "e", "t", "e">>), PInt(100)),
      Job(PStr(<<"f", "a", "i", "l", "e", "d">>), PInt(40)),
      Job(PStr(<<"E", "R", "R", "O", "R">>), Absent),
      Job(PStr(<<"c", "a", "n", "c", "e", "l", "e", "d">>), PInt(0)),
      Job(PStr(<<"C", "a", "n", "c", "e", "l", "l", "e", "d">>), PInt(90)) }

InitPoll ==
    /\ NormIdle
    /\ HistoryEmpty
    /\ SessionIdle
    /\ pc = "polling"
    /\ on_tick_given \in BOOLEAN
    /\ calls = 0
    /\ fetched = <<>>
    /\ ticks = <<>>
    /\ result = Pending
    /\ err = NoError

\* one turn of the loop: retrieve, to_dict, on_tick, then return, raise or
\* sleep according to the status
poll_iteration(job) ==
    LET job_dict == to_dict(job)
    IN  /\ pc = "polling"
        /\ calls < MaxPolls
        /\ calls' = calls + 1
        /\ fetched' = Append(fetched, job)
        /\ ticks' = IF on_tick_given THEN Append(ticks, job_dict) ELSE ticks
        /\ pc' = poll_outcome(job_dict)
        /\ result' = IF poll_outcome(job_dict) = "returned" THEN job_dict ELSE result
        /\ err' = IF poll_outcome(job_dict) = "raised" THEN job_failed_error(job_dict)
                  ELSE err
        /\ UNCHANGED <<normVars, histVars, sessVars, on_tick_given>>

\* the same with the failed retrieve call made again on the next turn
poll_retrieve_retried ==
    /\ pc = "polling"
    /\ calls < MaxPolls
    /\ calls' = calls + 1
    /\ pc' = "polling"
    /\ err' = TransportError
    /\ UNCHANGED <<normVars, histVars, sessVars, on_tick_given, fetched, ticks, result>>

\* client.videos.retrieve raises: the exception leaves the loop
poll_retrieve_raises ==
    /\ pc = "polling"
    /\ calls < MaxPolls
    /\ calls' = calls + 1
    /\ pc' = "raised"
    /\ err' = TransportError
    /\ UNCHANGED <<normVars, histVars, sessVars, on_tick_given, fetched, ticks, result>>

\* on_tick raises: the exception leaves the loop before the status is read
poll_on_tick_raises(job) ==
    /\ pc = "polling"
    /\ on_tick_given
    /\ calls < MaxPolls
    /\ calls' = calls + 1
    /\ fetched' = Append(fetched, job)
    /\ ticks' = Append(ticks, to_dict(job))
    /\ pc' = "raised"
    /\ err' = CallbackError
    /\ UNCHANGED <<normVars, histVars, sessVars, on_tick_given, result>>

NextPoll ==
    \/ \E job \in Responses : poll_iteration(job)
    \/ poll_retrieve_raises
    \/ \E job \in Responses : poll_on_tick_raises(job)

SpecPoll == InitPoll /\ [][NextPoll]_vars

\* the status of a fetched job as the claims read it: lower-cased
StatusText(job) ==
    IF "status" \in DOMAIN job.v[1] /\ job.v[1]["status"].t = "str"
    THEN [i \in DOMAIN job.v[1]["status"].v |-> lower_char(job.v[1]["status"].v[i])]
    ELSE <<>>

IsSuccess(job) ==
    StatusText(job) \in
        { <<"s", "u", "c", "c", "e", "e", "d", "e", "d">>,
          <<"c", "o", "m", "p", "l", "e", "t", "e", "d">>,
          <<"c", "o", "m", "p", "l", "e", "t", "e">> }

IsFailure(job) ==
    StatusText(job) \in
        { <<"f", "a", "i", "l", "e", "d">>, <<"e", "r", "r", "o", "r">>,
          <<"c", "a", "n", "c", "e", "l", "e", "d">>,
          <<"c", "a", "n", "c", "e", "l", "l", "e", "d">> }

IsTerminal(job) == IsSuccess(job) \/ IsFailure(job)

\* the record of a fetched job: the mapping of its fields
RecordOf(job) == PDict(job.v[1])

\* the positions of the terminal records among the fetched ones
TerminalAt == { i \in DOMAIN fetched : IsTerminal(fetched[i]) }

\* C1: when the first terminal record, the n-th, is a success, the poll
\* has made exactly n retrieve calls, invoked on_tick once per fetched
\* record in fetch order, and returned the n-th record; it returns nothing
\* else and fetches nothing after a terminal record.
C1_PollReturnsFirstSuccess ==
    LET n == Len(fetched)
    IN  /\ TerminalAt \subseteq {n}
        /\ (n > 0 /\ IsSuccess(fetched[n]) /\ err # CallbackError) =>
              /\ pc = "returned"
              /\ calls = n
              /\ result = RecordOf(fetched[n])
              /\ on_tick_given => ticks = [i \in 1..n |-> RecordOf(fetched[i])]
        /\ pc = "returned" =>
              /\ n > 0 /\ IsSuccess(fetched[n])
              /\ result = RecordOf(fetched[n])
              /\ calls = n
        /\ pc # "returned" => result = Pending

\* the mocked sequence queued, in_progress, in_progress, succeeded has been
\* polled to its end with an on_tick callback
C1_Witness ==
    /\ pc = "returned"
    /\ on_tick_given
    /\ Len(fetched) = 4
    /\ StatusText(fetched[1]) = <<"q", "u", "e", "u", "e", "d">>
    /\ StatusText(fetched[2]) = <<"i", "n", "_", "p", "r", "o", "g", "r", "e", "s", "s">>
    /\ StatusText(fetched[3]) = <<"i", "n", "_", "p", "r", "o", "g", "r", "e", "s", "s">>
    /\ IsSuccess(fetched[4])
    /\ Len(ticks) = 4

\* the payloads a poll can fetch are told apart by their dumped text
DumpTellsApart ==
    \A a, b \in Responses :
        json_dumps(RecordOf(a)) = json_dumps(RecordOf(b)) => a = b

\* C2: when the first terminal record is a failure, the poll raises the
\* job-failed error, which carries the dumped payload of that record, after
\* on_tick has been invoked for every fetched record, the failing one
\* included; it returns no record.
C2_PollRaisesOnFailure ==
    LET n == Len(fetched)
    IN  /\ (n > 0 /\ IsFailure(fetched[n]) /\ err # CallbackError) =>
              /\ pc = "raised"
              /\ err.kind = "JobFailed"
              /\ err.status = StatusText(fetched[n])
              /\ err.details = json_dumps(RecordOf(fetched[n]))
              /\ DumpTellsApart
              /\ on_tick_given => ticks = [i \in 1..n |-> RecordOf(fetched[i])]
              /\ result = Pending
              /\ calls = n
        /\ err.kind = "JobFailed" =>
              /\ pc = "raised"
              /\ n > 0 /\ IsFailure(fetched[n])
              /\ \A i \in 1..(n - 1) : ~IsTerminal(fetched[i])

\* a poll with an on_tick callback has ended in the job-failed error at its
\* third record, a cancelled job
C2_Witness ==
    /\ pc = "raised"
    /\ err.kind = "JobFailed"
    /\ on_tick_given
    /\ Len(fetched) = 3
    /\ StatusText(fetched[3]) = <<"c", "a", "n", "c", "e", "l", "l", "e", "d">>
    /\ Len(ticks) = 3

(***************************************************************************)
(* lib/state.py: upsert_video_history and remove_video_from_history        *)
(***************************************************************************)
\* history[:20]
HistoryCap == 20

\* the longest prompt snippet kept whole, and what is kept of a longer one
SnippetMax == 80

SnippetKeep == 77

\* the one character U+2026
Ellipsis == "..."

\* a or b
py_or(a, b) == IF Truthy(a) THEN a ELSE b

RECURSIVE split(_)
\* s.split(): the runs of characters between whitespace
split(s) ==
    LET body == lstrip(s)
        stops == { i \in DOMAIN body : IsSpace(body[i]) }
        stop == IF stops = {} THEN Len(body) + 1
                ELSE CHOOSE i \in stops : \A j \in stops : i <= j
    IN  IF body = <<>> THEN <<>>
        ELSE <<SubSeq(body, 1, stop - 1)>> \o split(SubSeq(body, stop, Len(body)))

RECURSIVE join(_)
\* " ".join(words)
join(words) ==
    IF words = <<>> THEN <<>>
    ELSE IF Len(words) = 1 THEN words[1]
    ELSE words[1] \o <<" ">> \o join(Tail(words))

\* the same cutting at 80 characters rather than 77
prompt_snippet_keep_80(job_dict, prompt) ==
    LET prompt_text == py_or(py_or(prompt, dict_get(job_dict, "prompt", None)), PStr(<<>>))
        snippet == join(split(py_str(prompt_text)))
    IN  IF Len(snippet) > SnippetMax
        THEN PStr(SubSeq(snippet, 1, SnippetMax) \o <<Ellipsis>>)
        ELSE PStr(snippet)

\* lines 111-114: the prompt with its whitespace collapsed, cut to 77
\* characters and an ellipsis when it is longer than 80
prompt_snippet(job_dict, prompt) ==
    LET prompt_text == py_or(py_or(prompt, dict_get(job_dict, "prompt", None)), PStr(<<>>))
        snippet == join(split(py_str(prompt_text)))
    IN  IF Len(snippet) > SnippetMax
        THEN PStr(SubSeq(snippet, 1, SnippetKeep) \o <<Ellipsis>>)
        ELSE PStr(snippet)

\* lines 116-126
history_entry(job_dict, prompt, source) ==
    [ id |-> PStr(py_str(dict_get(job_dict, "id", None))),
      prompt |-> prompt_snippet(job_dict, prompt),
      status |-> dict_get(job_dict, "status", None),
      seconds |-> py_or(dict_get(job_dict, "seconds", None),
                        dict_get(job_dict, "duration", None)),
      size |-> py_or(dict_get(job_dict, "size", None),
                     dict_get(job_dict, "resolution", None)),
      source |-> source,
      updated_at |-> py_or(py_or(dict_get(job_dict, "updated_at", None),
                                 dict_get(job_dict, "created_at", None)),
                           dict_get(job_dict, "created", None)) ]

\* the same without the filter that drops the entry of the same id
upsert_video_history_no_dedup(h, job, prompt, source) ==
    LET job_dict == to_dict(job)
        entry == history_entry(job_dict, prompt, source)
        grown == <<entry>> \o h
    IN  IF ~Truthy(dict_get(job_dict, "id", None)) THEN h
        ELSE SubSeq(grown, 1, Min(Len(grown), HistoryCap))

\* the same with the new entry appended, so that the cut drops the newest
upsert_video_history_append(h, job, prompt, source) ==
    LET job_dict == to_dict(job)
        entry == history_entry(job_dict, prompt, source)
        kept == SelectSeq(h, LAMBDA existing : existing.id # entry.id)
        grown == kept \o <<entry>>
    IN  IF ~Truthy(dict_get(job_dict, "id", None)) THEN h
        ELSE SubSeq(grown, 1, Min(Len(grown), HistoryCap))

\* the same with the existing entry updated in place
upsert_video_history_in_place(h, job, prompt, source) ==
    LET job_dict == to_dict(job)
        entry == history_entry(job_dict, prompt, source)
        grown == IF \E i \in DOMAIN h : h[i].id = entry.id
                 THEN [i \in DOMAIN h |-> IF h[i].id = entry.id THEN entry ELSE h[i]]
                 ELSE <<entry>> \o h
    IN  IF ~Truthy(dict_get(job_dict, "id", None)) THEN h
        ELSE SubSeq(grown, 1, Min(Len(grown), HistoryCap))

\* the history after upsert_video_history(job, prompt=prompt, source=source)
upsert_video_history(h, job, prompt, source) ==
    LET job_dict == to_dict(job)
        entry == history_entry(job_dict, prompt, source)
        kept == SelectSeq(h, LAMBDA existing : existing.id # entry.id)
        grown == <<entry>> \o kept
    IN  IF ~Truthy(dict_get(job_dict, "id", None)) THEN h
        ELSE SubSeq(grown, 1, Min(Len(grown), HistoryCap))

\* the history after remove_video_from_history(video_id)
remove_video_from_history(h, video_id) ==
    SelectSeq(h, LAMBDA entry : entry.id # video_id)

(***************************************************************************)
(* The calls made on the history                                           *)
(***************************************************************************)
\* how many ids are upserted once and never named again
MaxFresh == 20

Queued == PStr(<<"q", "u", "e", "u", "e", "d">>)

Completed == PStr(<<"c", "o", "m", "p", "l", "e", "t", "e", "d">>)

SpacedPrompt == PStr(<<" ", "a", " ", " ", "b">>)

\* the k-th of the ids upserted once
FreshId(k) == PStr(<<"f">> \o NatToStr(k))

\* the ids upserted again and removed: a str, an int and the str of the
\* same digits
HotIds == { PStr(<<"a">>), PStr(<<"7">>), PInt(7) }

\* what a job carries when it has no usable id
NoIds == { Absent, PStr(<<>>), PInt(0) }

JobWith(id, status) == MakeDict({ <<"id", id>>, <<"status", status>> })

\* the upserts the pages make of a job: on create with the typed prompt, on
\* a poll tick, and on completion
UpsertCalls ==
    { [job |-> JobWith(id, Queued), prompt |-> SpacedPrompt, source |-> "generate"] :
        id \in HotIds \cup NoIds }
    \cup { [job |-> JobWith(id, Completed), prompt |-> None, source |-> "complete"] :
             id \in HotIds }

InitHistory ==
    /\ NormIdle
    /\ PollIdle
    /\ HistoryEmpty
    /\ SessionIdle

\* the str the history keeps for an id
StoredId(id) == PStr(py_str(id))

Ids(h) == { h[i].id : i \in DOMAIN h }

\* the bookkeeping of an upsert: the call, and the log of the ids upserted
\* so far while each was new
NoteUpsert(job, prompt, source) ==
    LET id == dict_get(job, "id", Absent)
        fresh == id # Absent /\ Truthy(id) /\ pristine
                    /\ \A i \in DOMAIN upsert_log : upsert_log[i] # StoredId(id)
    IN  /\ last_call' = [op |-> "upsert", id |-> id, job |-> job, prompt |-> prompt,
                         source |-> source,
                         existed |-> id # Absent /\ StoredId(id) \in Ids(history)]
        /\ pristine' = fresh
        /\ upsert_log' = IF fresh THEN Append(upsert_log, StoredId(id)) ELSE <<>>

\* upsert_video_history for a job whose id was never seen before
upsert_fresh ==
    LET job == JobWith(FreshId(n_fresh + 1), Queued)
    IN  /\ n_fresh < MaxFresh
        /\ n_fresh' = n_fresh + 1
        /\ history' = upsert_video_history(history, job, SpacedPrompt, "generate")
        /\ NoteUpsert(job, SpacedPrompt, "generate")
        /\ UNCHANGED <<normVars, pollVars, sessVars>>

\* upsert_video_history for a job that may be in the history already
upsert_call(call) ==
    /\ history' = upsert_video_history(history, call.job, call.prompt, call.source)
    /\ NoteUpsert(call.job, call.prompt, call.source)
    /\ UNCHANGED <<normVars, pollVars, sessVars, n_fresh>>

remove_call(video_id) ==
    /\ history' = remove_video_from_history(history, video_id)
    /\ last_call' = [op |-> "remove", id |-> video_id, job |-> None, prompt |-> None,
                     source |-> "", existed |-> video_id \in Ids(history)]
    /\ pristine' = FALSE
    /\ upsert_log' = <<>>
    /\ UNCHANGED <<normVars, pollVars, sessVars, n_fresh>>

NextHistory ==
    \/ upsert_fresh
    \/ \E call \in UpsertCalls : upsert_call(call)
    \/ \E video_id \in HotIds : remove_call(video_id)

SpecHistory == InitHistory /\ [][NextHistory]_vars

\* C3: whatever upserts and removals were made from the empty history, it
\* has at most 20 entries and no two of them have the same id.
C3_HistoryBounded ==
    /\ Len(history) <= 20
    /\ \A i, j \in DOMAIN history : history[i].id = history[j].id => i = j

\* an id given as an int was upserted again into a full history that had
\* seen removals
C3_Witness ==
    /\ Len(history) = 20
    /\ n_fresh = MaxFresh
    /\ ~pristine
    /\ last_call.op = "upsert"
    /\ last_call.id = PInt(7)
    /\ last_call.existed
    /\ history[1].id = PStr(<<"7">>)

\* C4: after upserts of N > 20 distinct ids into the empty history, it
\* holds the 20 ids upserted last, the newest first, and none of the
\* N - 20 oldest.
C4_KeepsNewestTwenty ==
    LET n == Len(upsert_log)
    IN  (pristine /\ n > 20) =>
            /\ Len(history) = 20
            /\ \A i \in 1..20 : history[i].id = upsert_log[n + 1 - i]
            /\ \A i \in 1..(n - 20) : upsert_log[i] \notin Ids(history)

\* 21 distinct ids were upserted, an id given as an int the first of them
C4_Witness ==
    /\ pristine
    /\ Len(upsert_log) = 21
    /\ upsert_log[1] = PStr(<<"7">>)
    /\ Len(history) = 20

\* C5: an upsert of an id the history holds puts its entry first, with the
\* fields of the new call, leaves the length alone, keeps one entry of the
\* id, and keeps the other entries in their order.
C5_Step ==
    LET id == StoredId(last_call'.id)
        others == SelectSeq(history, LAMBDA e : e.id # id)
    IN  (last_call'.op = "upsert" /\ last_call'.id \notin NoIds /\ id \in Ids(history)) =>
            /\ history'[1].id = id
            /\ history'[1].status = dict_get(last_call'.job, "status", None)
            /\ history'[1].source = last_call'.source
            /\ Len(history') = Len(history)
            /\ Cardinality({ i \in DOMAIN history' : history'[i].id = id }) = 1
            /\ Tail(history') = others

C5_ReinsertMovesToFront == [][C5_Step]_vars

\* a completed job that was last in a full history is now first
C5_Witness ==
    /\ last_call.op = "upsert"
    /\ last_call.existed
    /\ last_call.source = "complete"
    /\ Len(history) = 20
    /\ history[1].id = PStr(<<"a">>)
    /\ history[1].status = Completed
    /\ history[20].id = FreshId(2)

(***************************************************************************)
(* lib/state.py: the busy flag and the job cache                           *)
(***************************************************************************)
\* set_busy(value): the new value of st.session_state["busy"]
set_busy(value) == value

\* is_busy()
is_busy == busy

\* whether a value can be a dict key: hash() of a list or a dict raises
Hashable(x) == x.t \notin {"list", "dict"}

\* whether cache_job(job_dict) raises: store[job_id] = job_dict is a
\* TypeError when job_id cannot be hashed
cache_job_raises(job_dict) ==
    LET job_id == dict_get(job_dict, "id", None)
    IN  Truthy(job_id) /\ ~Hashable(job_id)

\* the same with a record of an id that is already a key dropped rather
\* than stored
cache_job_keep_first(cache, job_dict) ==
    LET job_id == dict_get(job_dict, "id", None)
    IN  IF ~Truthy(job_id) \/ ~Hashable(job_id) THEN cache
        ELSE [k \in DOMAIN cache \cup {job_id} |->
                 IF k \in DOMAIN cache THEN cache[k] ELSE job_dict]

\* the job cache after cache_job(job_dict), also when it raised
cache_job(cache, job_dict) ==
    LET job_id == dict_get(job_dict, "id", None)
    IN  IF ~Truthy(job_id) \/ ~Hashable(job_id) THEN cache
        ELSE [k \in DOMAIN cache \cup {job_id} |->
                 IF k = job_id THEN job_dict ELSE cache[k]]

\* get_cached_job(job_id)
get_cached_job(cache, job_id) ==
    IF job_id \in DOMAIN cache THEN cache[job_id] ELSE None

(***************************************************************************)
(* The calls made on the job cache and the history, and the deletion of a  *)
(* job on the Jobs page                                                    *)
(***************************************************************************)
\* how many cache_job calls and how many deletions are followed
MaxCached == 2

MaxDeletes == 1

\* an id that is a list
ListId == PList(<<PStr(<<"a">>)>>)

\* the records cached: of a str id in two states, of an int id, of ids of
\* no use, and of a list id
CacheJobs ==
    { JobWith(id, Queued) : id \in { PStr(<<"a">>), PInt(7), Absent, PStr(<<>>), ListId } }
    \cup { JobWith(PStr(<<"a">>), Completed) }

\* the records upserted into the history
StoreJobs == { JobWith(id, Queued) : id \in { PStr(<<"a">>), Absent, PStr(<<>>), ListId } }

\* the ids a job of the Jobs table is selected by
SelectedIds == { PStr(<<"a">>), PStr(<<"7">>) }

InitStore ==
    /\ NormIdle
    /\ PollIdle
    /\ HistoryEmpty
    /\ SessionIdle

\* what is noted of a call: the function, the id it was about, and whether
\* the call raised
NoteCall(op, id, raised) ==
    /\ last_call' = [op |-> op, id |-> id, raised |-> raised]
    /\ UNCHANGED <<n_fresh, pristine, upsert_log>>

\* cache_job(job_dict)
store_cache_job(job_dict) ==
    /\ Len(cache_log) < MaxCached
    /\ jobs_cache' = cache_job(jobs_cache, job_dict)
    /\ cache_log' = Append(cache_log, job_dict)
    /\ NoteCall("cache_job", dict_get(job_dict, "id", Absent), cache_job_raises(job_dict))
    /\ UNCHANGED <<normVars, pollVars, history, busy, session, running, net>>

\* upsert_video_history(job, source="jobs")
store_upsert(job) ==
    /\ history' = upsert_video_history(history, job, None, "jobs")
    /\ NoteCall("upsert", dict_get(job, "id", Absent), FALSE)
    /\ UNCHANGED <<normVars, pollVars, sessVars>>

\* remove_video_from_history(video_id)
store_remove(video_id) ==
    /\ history' = remove_video_from_history(history, video_id)
    /\ NoteCall("remove", video_id, FALSE)
    /\ UNCHANGED <<normVars, pollVars, sessVars>>

\* jobs_rows without the rows of the id
rows_without(rows, selected_id) ==
    SelectSeq(rows, LAMBDA job : dict_get(job, "id", None) # selected_id)

\* how many calls of the kind were made on the client
Calls(op) == Cardinality({ i \in DOMAIN net : net[i].op = op })

\* jobs.py lines 339-340: _handle_delete, the click on Delete
handle_delete(selected_id) ==
    /\ session' = [session EXCEPT !.jobs_pending_delete = selected_id]
    /\ NoteCall("delete_click", selected_id, FALSE)
    /\ UNCHANGED <<normVars, pollVars, history, busy, jobs_cache, running, net, cache_log>>

\* the same whatever jobs_pending_delete holds
delete_confirmed_always(selected_id) == TRUE

\* jobs.py lines 366-367: the Confirm delete and Cancel buttons are there
\* when jobs_pending_delete is the selected id
delete_confirmed(selected_id) == session.jobs_pending_delete = selected_id

\* jobs.py line 398: Cancel
cancel_delete(selected_id) ==
    /\ delete_confirmed(selected_id)
    /\ session' = [session EXCEPT !.jobs_pending_delete = None]
    /\ NoteCall("cancel", selected_id, FALSE)
    /\ UNCHANGED <<normVars, pollVars, history, busy, jobs_cache, running, net, cache_log>>

\* the session after the try clause of _execute_delete got through the
\* delete call (lines 379-386).  With no download payload, line 385 calls
\* .get on None and the handler ends in its except clause, after all of
\* this is done
deleted_session(sess, selected_id) ==
    [sess EXCEPT
        !.jobs_rows = rows_without(@, selected_id),
        !.jobs_selected_job = None,
        !.jobs_selected_media_url = None,
        !.jobs_selected_media_bytes = None,
        !.jobs_download_payload = IF @ # None /\ @.id = selected_id THEN None ELSE @]

\* jobs.py lines 371-393: _execute_delete with the selected id, the click
\* on Confirm delete: the delete call, which the server may fail, then the
\* removal from the history and the table, and the finally clause
execute_delete(selected_id, fails) ==
    /\ delete_confirmed(selected_id)
    /\ Calls("delete") < MaxDeletes
    /\ busy' = set_busy(FALSE)
    /\ net' = Append(net, [op |-> "delete", id |-> selected_id])
    /\ history' = IF fails THEN history
                  ELSE remove_video_from_history(history, selected_id)
    /\ session' = [(IF fails THEN session ELSE deleted_session(session, selected_id))
                      EXCEPT !.jobs_pending_delete = None]
    /\ NoteCall("delete", selected_id, fails)
    /\ UNCHANGED <<normVars, pollVars, jobs_cache, running, cache_log>>

NextStore ==
    \/ \E job_dict \in CacheJobs : store_cache_job(job_dict)
    \/ \E job \in StoreJobs : store_upsert(job)
    \/ \E video_id \in SelectedIds \cup {PInt(7)} : store_remove(video_id)
    \/ \E selected_id \in SelectedIds : handle_delete(selected_id)
    \/ \E selected_id \in SelectedIds : cancel_delete(selected_id)
    \/ \E selected_id \in SelectedIds, fails \in BOOLEAN : execute_delete(selected_id, fails)

SpecStore == InitStore /\ [][NextStore]_vars

\* the id of the i-th record passed to cache_job
LoggedId(i) == dict_get(cache_log[i], "id", None)

\* the last record passed to cache_job under the id
LatestCached(id) ==
    LET last == CHOOSE i \in DOMAIN cache_log :
                    /\ LoggedId(i) = id
                    /\ \A j \in DOMAIN cache_log : LoggedId(j) = id => j <= i
    IN  cache_log[last]

\* C12: after any cache_job, upsert_video_history, remove_video_from_history
\* and job-deletion calls, every non-empty id a cache_job call that returned
\* was given is a key of the job cache, and its value is the record of the
\* last such call for that id.
C12_CacheKeepsLatest ==
    \A i \in DOMAIN cache_log :
        (Truthy(LoggedId(i)) /\ ~cache_job_raises(cache_log[i])) =>
            /\ LoggedId(i) \in DOMAIN jobs_cache
            /\ jobs_cache[LoggedId(i)] = LatestCached(LoggedId(i))
            /\ get_cached_job(jobs_cache, LoggedId(i)) = LatestCached(LoggedId(i))

\* the job "a" was cached as queued, then as completed, then deleted on
\* the Jobs page, and the cache still holds its completed record
C12_Witness ==
    /\ Len(cache_log) = 2
    /\ cache_log[1] = JobWith(PStr(<<"a">>), Queued)
    /\ cache_log[2] = JobWith(PStr(<<"a">>), Completed)
    /\ last_call.op = "delete"
    /\ last_call.id = PStr(<<"a">>)
    /\ ~last_call.raised
    /\ jobs_cache[PStr(<<"a">>)] = JobWith(PStr(<<"a">>), Completed)

\* an id that is absent, empty, or not a str or an int
UnusableId(id) == id = Absent \/ ~Truthy(id) \/ id.t \notin {"str", "int"}

\* C13 as stated: a cache_job or upsert_video_history call with a record
\* whose id is absent or malformed returns without raising and leaves the
\* job cache and the history as they were, and remove_video_from_history
\* with an id that is not in the history leaves the history as it was.
C13_Step ==
    /\ (last_call'.op \in {"cache_job", "upsert"} /\ UnusableId(last_call'.id)) =>
            /\ ~last_call'.raised
            /\ jobs_cache' = jobs_cache
            /\ history' = history
    /\ (last_call'.op = "remove" /\ last_call'.id \notin Ids(history)) =>
            history' = history

C13_AsStated == [][C13_Step]_vars

\* C13, what holds: the calls with an absent or empty id, and the removal
\* of an id that is not in the history, change nothing and do not raise.
C13_EmptyIdStep ==
    /\ (last_call'.op \in {"cache_job", "upsert"}
            /\ (last_call'.id = Absent \/ ~Truthy(last_call'.id))) =>
            /\ ~last_call'.raised
            /\ jobs_cache' = jobs_cache
            /\ history' = history
    /\ (last_call'.op = "remove" /\ last_call'.id \notin Ids(history)) =>
            history' = history

C13_EmptyIdIsNoOp == [][C13_EmptyIdStep]_vars

\* cache_job was called with a record whose id is a list, and raised
C13_Witness ==
    /\ last_call.op = "cache_job"
    /\ last_call.id = ListId
    /\ last_call.raised

(***************************************************************************)
(* lib/state.py: the prompt snippet of a history entry                     *)
(***************************************************************************)
\* the lengths of the prompts typed
MinPromptLen == 75

MaxPromptLen == 92

\* n characters without whitespace
Plain(n) == [i \in 1..n |-> "a"]

\* n characters in words of nine
Words(n) == [i \in 1..n |-> IF i % 10 = 0 THEN " " ELSE "a"]

\* n characters of which the first two are spaces
Padded(n) == [i \in 1..n |-> IF i <= 2 THEN " " ELSE "a"]

\* n characters with two spaces in a row after the third
Gapped(n) == [i \in 1..n |-> IF i \in {4, 5} THEN " " ELSE "a"]

Prompts ==
    { PStr(text) : text \in UNION { { Plain(n), Words(n), Padded(n), Gapped(n) } :
                                       n \in MinPromptLen..MaxPromptLen } }

\* the job the prompt was submitted for
SnippetJob == JobWith(VideoId, Queued)

InitSnippet ==
    /\ fn = "upsert_video_history"
    /\ arg \in Prompts
    /\ ret = Pending
    /\ ret_id = Pending
    /\ PollIdle
    /\ HistoryEmpty
    /\ SessionIdle

\* upsert_video_history(job_dict, prompt=prompt_text, source="generate")
Call_upsert_video_history ==
    /\ fn = "upsert_video_history"
    /\ ret = Pending
    /\ history' = upsert_video_history(history, SnippetJob, arg, "generate")
    /\ ret' = None
    /\ UNCHANGED <<fn, arg, ret_id, pollVars, sessVars, n_fresh, last_call, pristine,
                   upsert_log>>

SpecSnippet == InitSnippet /\ [][Call_upsert_video_history]_vars

\* the snippet the call stored
Stored == history[1].prompt.v

\* the positions of a text that are not whitespace, and those of the
\* first whitespace character after a word that is not the last word
KeptPositions(s) ==
    { i \in DOMAIN s :
        \/ ~IsSpace(s[i])
        \/ /\ i > 1 /\ ~IsSpace(s[i - 1])
           /\ \E j \in DOMAIN s : j > i /\ ~IsSpace(s[j]) }

\* a text with no whitespace at its ends and one space between its words
Collapsed(s) ==
    LET kept == KeptPositions(s)
        at(k) == CHOOSE i \in kept : Cardinality({ j \in kept : j <= i }) = k
    IN  [k \in 1..Cardinality(kept) |-> IF IsSpace(s[at(k)]) THEN " " ELSE s[at(k)]]

\* C14 as stated: the stored snippet has at most 80 characters; of a
\* prompt longer than 80 it is the first 77 characters and an ellipsis, 80
\* characters in all; a prompt of at most 80 characters is stored as it is.
C14_AsStated ==
    ret = None =>
        /\ Len(Stored) <= 80
        /\ Len(arg.v) > 80 =>
              /\ Stored = SubSeq(arg.v, 1, 77) \o <<Ellipsis>>
              /\ Len(Stored) = 80
        /\ Len(arg.v) <= 80 => Stored = arg.v

\* C14: the stored snippet has at most 80 characters.  It is made from the
\* prompt with its whitespace collapsed: when that has more than 80
\* characters, its first 77 and one ellipsis character, 78 in all, and
\* otherwise the collapsed prompt itself.
C14_SnippetRule ==
    ret = None =>
        /\ Len(Stored) <= 80
        /\ Len(Collapsed(arg.v)) > 80 =>
              /\ Stored = SubSeq(Collapsed(arg.v), 1, 77) \o <<Ellipsis>>
              /\ Len(Stored) = 78
        /\ Len(Collapsed(arg.v)) <= 80 => Stored = Collapsed(arg.v)

\* a prompt of 90 characters with two spaces after its first word was
\* stored as the word, one space, 73 letters and the ellipsis
C14_Witness ==
    /\ ret = None
    /\ arg = PStr(Gapped(90))
    /\ Stored = <<"a", "a", "a", " ">> \o Plain(73) \o <<Ellipsis>>
    /\ Len(Stored) = 78

(***************************************************************************)
(* lib/api.py: poll_until_complete, how it ends                            *)
(***************************************************************************)
\* C17: when a retrieve call raises, the poll ends with that error, has
\* returned nothing, has not invoked on_tick for that turn, and makes no
\* further call; a retrieve call is repeated only after a record whose
\* status is not terminal.
C17_State ==
    /\ err = TransportError =>
          /\ pc = "raised"
          /\ result = Pending
          /\ calls = Len(fetched) + 1
          /\ Len(ticks) = IF on_tick_given THEN Len(fetched) ELSE 0
    /\ \A i \in DOMAIN fetched : i < calls => ~IsTerminal(fetched[i])

C17_Step == pc # "polling" => UNCHANGED <<calls, fetched, ticks, pc, err>>

C17_TransportErrorNotRetried == [](C17_State) /\ [][C17_Step]_vars

\* the third retrieve call of a poll with an on_tick callback raised, after
\* two ticks
C17_Witness ==
    /\ pc = "raised"
    /\ err = TransportError
    /\ on_tick_given
    /\ calls = 3
    /\ Len(fetched) = 2
    /\ Len(ticks) = 2

\* The loop followed without a bound on its turns: of the records fetched
\* and ticked only the last is kept, and the count of the calls stops at
\* MaxPolls.
poll_turn(job) ==
    LET job_dict == to_dict(job)
    IN  /\ pc = "polling"
        /\ calls' = Min(calls + 1, MaxPolls)
        /\ fetched' = <<job>>
        /\ ticks' = IF on_tick_given THEN <<job_dict>> ELSE <<>>
        /\ pc' = poll_outcome(job_dict)
        /\ result' = IF poll_outcome(job_dict) = "returned" THEN job_dict ELSE result
        /\ err' = IF poll_outcome(job_dict) = "raised" THEN job_failed_error(job_dict)
                  ELSE err
        /\ UNCHANGED <<normVars, histVars, sessVars, on_tick_given>>

\* a turn in which client.videos.retrieve raises
poll_turn_retrieve_raises ==
    /\ pc = "polling"
    /\ calls' = Min(calls + 1, MaxPolls)
    /\ pc' = "raised"
    /\ err' = TransportError
    /\ UNCHANGED <<normVars, histVars, sessVars, on_tick_given, fetched, ticks, result>>

\* a turn in which on_tick raises
poll_turn_on_tick_raises(job) ==
    /\ pc = "polling"
    /\ on_tick_given
    /\ calls' = Min(calls + 1, MaxPolls)
    /\ fetched' = <<job>>
    /\ ticks' = <<to_dict(job)>>
    /\ pc' = "raised"
    /\ err' = CallbackError
    /\ UNCHANGED <<normVars, histVars, sessVars, on_tick_given, result>>

\* a turn of the loop in which the server answers with a terminal status
terminal_turn == \E job \in { r \in Responses : IsTerminal(r) } : poll_turn(job)

\* a turn of the loop in which it answers with another status, or none
waiting_turn == \E job \in { r \in Responses : ~IsTerminal(r) } : poll_turn(job)

NextPollOn ==
    \/ terminal_turn
    \/ waiting_turn
    \/ poll_turn_retrieve_raises
    \/ \E job \in Responses : poll_turn_on_tick_raises(job)

\* the loop does not stop turning by itself (while True, and time.sleep
\* returns), and the server does answer with a terminal status in the end
SpecPollOn ==
    /\ InitPoll
    /\ [][NextPollOn]_vars
    /\ WF_vars(terminal_turn)

\* the last record fetched, if any, has no terminal status, and no call
\* raised
StillWaiting ==
    /\ \A i \in DOMAIN fetched : ~IsTerminal(fetched[i])
    /\ err = NoError

\* C16: when the server answers with a terminal status in the end and no
\* call raises, the poll ends; after a status that is not terminal the
\* poll has not ended, and another turn of the loop is possible however
\* many were made.
C16_EndsOnlyOnTerminal ==
    /\ <>(pc \in {"returned", "raised"})
    /\ [](StillWaiting => (pc = "polling" /\ ENABLED waiting_turn))

\* the poll has made MaxPolls calls or more, the last answered with no
\* status at all, and has not ended
C16_Witness ==
    /\ pc = "polling"
    /\ calls = MaxPolls
    /\ StillWaiting
    /\ Len(fetched) = 1
    /\ StatusText(fetched[1]) = <<>>

(***************************************************************************)
(* lib/api.py: download_video_to_file                                      *)
(***************************************************************************)
\* the longest content downloaded and the largest chunk_size asked for
MaxBytes == 3

MaxChunk == 2

PBytes(b) == [t |-> "bytes", v |-> b]

\* what the server holds for the video
Contents == UNION { [1..n -> {0, 1}] : n \in 0..MaxBytes }

\* the arguments: the content behind the response, chunk_size, and whether
\* a writer is given
Downloads ==
    [data : Contents, chunk_size : 1..MaxChunk, writer : BOOLEAN]

InitDownload ==
    /\ fn = "download_video_to_file"
    /\ arg \in Downloads
    /\ ret = Pending
    /\ ret_id = Pending
    /\ PollIdle
    /\ HistoryEmpty
    /\ SessionIdle

\* the locals of download_video_to_file: what is left behind resp, content,
\* the chunks the writer was called with, and the resp.read calls made
DownloadFrame(at, resp, content, written, reads) ==
    [name |-> "download_video_to_file", at |-> at, resp |-> resp, content |-> content,
     written |-> written, reads |-> reads]

\* lines 227-233: client.videos.download_content, then with a writer the
\* empty content the loop starts from
download_open ==
    /\ fn = "download_video_to_file"
    /\ running.name = "none"
    /\ arg.writer
    /\ net' = Append(net, [op |-> "download_content", id |-> VideoId])
    /\ running' = DownloadFrame("reading", arg.data, <<>>, <<>>, 0)
    /\ UNCHANGED <<normVars, pollVars, histVars, busy, jobs_cache, session, cache_log>>

\* the same with a chunk read but not handed to the writer
download_read_unwritten(k) ==
    /\ running.name = "download_video_to_file"
    /\ running.at = "reading"
    /\ k <= Len(running.resp)
    /\ k <= arg.chunk_size
    /\ running' = DownloadFrame("reading",
                                SubSeq(running.resp, k + 1, Len(running.resp)),
                                running.content \o SubSeq(running.resp, 1, k),
                                running.written, running.reads + 1)
    /\ UNCHANGED <<normVars, pollVars, histVars, busy, jobs_cache, session, net, cache_log>>

\* lines 234-239: resp.read(chunk_size) returns the next k bytes, at least
\* one and at most chunk_size; the writer gets them and content grows
download_read(k) ==
    /\ running.name = "download_video_to_file"
    /\ running.at = "reading"
    /\ k <= Len(running.resp)
    /\ k <= arg.chunk_size
    /\ running' = DownloadFrame("reading",
                                SubSeq(running.resp, k + 1, Len(running.resp)),
                                running.content \o SubSeq(running.resp, 1, k),
                                Append(running.written, SubSeq(running.resp, 1, k)),
                                running.reads + 1)
    /\ UNCHANGED <<normVars, pollVars, histVars, busy, jobs_cache, session, net, cache_log>>

\* lines 234-237 and 240: resp.read(chunk_size) returns b"" at the end of
\* the content; the loop breaks and content is returned
download_end ==
    /\ running.name = "download_video_to_file"
    /\ running.at = "reading"
    /\ running.resp = <<>>
    /\ running' = DownloadFrame("returned", <<>>, running.content, running.written,
                                running.reads + 1)
    /\ ret' = PBytes(running.content)
    /\ UNCHANGED <<fn, arg, ret_id, pollVars, histVars, busy, jobs_cache, session, net,
                   cache_log>>

\* lines 227-232 and 241, no writer: download_content and one resp.read()
\* of everything
download_whole ==
    /\ fn = "download_video_to_file"
    /\ running.name = "none"
    /\ ~arg.writer
    /\ net' = Append(net, [op |-> "download_content", id |-> VideoId])
    /\ running' = DownloadFrame("returned", <<>>, <<>>, <<>>, 1)
    /\ ret' = PBytes(arg.data)
    /\ UNCHANGED <<fn, arg, ret_id, pollVars, histVars, busy, jobs_cache, session,
                   cache_log>>

NextDownload ==
    \/ download_open
    \/ \E k \in 1..MaxChunk : download_read(k)
    \/ download_end
    \/ download_whole

SpecDownload == InitDownload /\ [][NextDownload]_vars

RECURSIVE Concat(_)
\* the chunks one after the other
Concat(chunks) == IF chunks = <<>> THEN <<>> ELSE Head(chunks) \o Concat(Tail(chunks))

\* C20: with a writer, every chunk read before the empty one went to the
\* writer once, in order, none of them empty or longer than chunk_size,
\* and the call returns their concatenation, which is the whole content;
\* without a writer the call reads once, calls nothing, and returns the
\* whole content.
C20_DownloadChunks ==
    running.name = "download_video_to_file" =>
        /\ Len(net) = 1
        /\ arg.writer =>
              /\ running.reads = Len(running.written)
                                    + (IF running.at = "returned" THEN 1 ELSE 0)
              /\ \A i \in DOMAIN running.written :
                    /\ running.written[i] # <<>>
                    /\ Len(running.written[i]) <= arg.chunk_size
              /\ running.content = Concat(running.written)
              /\ running.content \o running.resp = arg.data
              /\ running.at = "returned" =>
                    /\ ret = PBytes(Concat(running.written))
                    /\ ret = PBytes(arg.data)
        /\ ~arg.writer =>
              /\ running.at = "returned"
              /\ running.reads = 1
              /\ running.written = <<>>
              /\ ret = PBytes(arg.data)

\* three bytes were downloaded with a writer in a chunk of two and a chunk
\* of one, and a third read found the end
C20_Witness ==
    /\ running.name = "download_video_to_file"
    /\ running.at = "returned"
    /\ arg.writer
    /\ arg.data = <<1, 0, 1>>
    /\ running.written = << <<1, 0>>, <<1>> >>
    /\ running.reads = 3
    /\ ret = PBytes(<<1, 0, 1>>)

(***************************************************************************)
(* lib/api.py: list_videos_page and list_videos; pages/jobs.py: the fetch  *)
(* of the Jobs table                                                       *)
(***************************************************************************)
\* how many fetches of the Jobs page are followed
MaxFetches == 2

\* lines 159-171: (items, has_more, next_after) of the page the server
\* returned
list_videos_page(page) ==
    LET page_dict == to_dict(page)
        data == py_or(dict_get(page_dict, "data", None), PList(<<>>)).v
        items == [i \in DOMAIN data |-> to_dict(data[i])]
    IN  [ items |-> items,
          has_more |-> Truthy(dict_get(page_dict, "has_more", None)),
          next_after |-> IF items # <<>> THEN dict_get(items[Len(items)], "id", None)
                         ELSE None ]

\* lines 202-216: the page the server returned, as a dict
list_videos(page) == to_dict(page)

\* the same with the id of the last row kept whatever has_more says
jobs_next_after_any(has_more, data) ==
    IF data # <<>> THEN dict_get(data[Len(data)], "id", None) ELSE None

\* jobs.py line 157: data[-1].get("id") if has_more and data else None
jobs_next_after(has_more, data) ==
    IF has_more /\ data # <<>> THEN dict_get(data[Len(data)], "id", None) ELSE None

RECURSIVE cache_all(_, _)
\* the job cache after cache_job of each item in turn
cache_all(cache, items) ==
    IF items = <<>> THEN cache
    ELSE cache_all(cache_job(cache, Head(items)), Tail(items))

RECURSIVE upsert_all(_, _)
\* the history after upsert_video_history(item, source="jobs") of each
upsert_all(h, items) ==
    IF items = <<>> THEN h
    ELSE upsert_all(upsert_video_history(h, Head(items), None, "jobs"), Tail(items))

\* how many items the loop of lines 150-154 gets through: all of them, or
\* those before the first whose cache_job raises
items_done(items) ==
    LET bad == { i \in DOMAIN items : cache_job_raises(items[i]) }
    IN  IF bad = {} THEN Len(items)
        ELSE (CHOOSE i \in bad : \A j \in bad : i <= j) - 1

ItemA == JobWith(PStr(<<"a">>), Queued)

ItemB == JobWith(PStr(<<"b">>), Completed)

ItemNoId == JobWith(Absent, Queued)

\* what the server may answer a list call with: data missing, null, empty
\* or of one or two jobs, and has_more missing, null or a bool
Pages ==
    { PObj(MakeDict({ <<"data", d>>, <<"has_more", h>> }).v, "ok") :
        d \in { Absent, None, PList(<<>>), PList(<<ItemA>>), PList(<<ItemA, ItemB>>),
                PList(<<ItemB, ItemNoId>>) },
        h \in { Absent, None, PBool(TRUE), PBool(FALSE) } }

InitPages ==
    /\ \/ fn = "list_videos_page" /\ arg \in Pages
       \/ fn = "none" /\ arg = None
    /\ ret = Pending
    /\ ret_id = Pending
    /\ PollIdle
    /\ HistoryEmpty
    /\ SessionIdle

Call_list_videos_page ==
    /\ fn = "list_videos_page"
    /\ ret = Pending
    /\ ret' = list_videos_page(arg)
    /\ UNCHANGED <<fn, arg, ret_id, pollVars, histVars, sessVars>>

\* str(exc) of the exception a failed call on the client raises, and of
\* the TypeError of an id that cannot be a key
TransportText == "transport error"

UnhashableText == "unhashable type"

\* the same with the rows of a reset fetch cleared before the list call
fetch_jobs_clears_first(reset, page, fails) ==
    LET after == IF reset THEN None ELSE session.jobs_next_after
        page_dict == list_videos(page)
        data == py_or(dict_get(page_dict, "data", None), PList(<<>>)).v
        items == [i \in DOMAIN data |-> to_dict(data[i])]
        done == items_done(items)
        raised == done < Len(items)
        rows == IF reset THEN <<>> ELSE session.jobs_rows
        has_more == Truthy(dict_get(page_dict, "has_more", None))
    IN  /\ fn = "none"
        /\ running.name = "none"
        /\ Len(net) < MaxFetches
        /\ ~reset => session.jobs_has_more
        /\ net' = Append(net, [op |-> "list", after |-> after])
        /\ busy' = set_busy(FALSE)
        /\ jobs_cache' = IF fails THEN jobs_cache
                         ELSE cache_all(jobs_cache, SubSeq(items, 1, done))
        /\ history' = IF fails THEN history
                      ELSE upsert_all(history, SubSeq(items, 1, done))
        /\ session' =
              IF fails THEN [session EXCEPT !.jobs_rows = rows,
                                            !.jobs_last_error = TransportText]
              ELSE IF raised
              THEN [session EXCEPT
                      !.jobs_rows = rows \o SubSeq(items, 1, done + 1),
                      !.jobs_last_error = UnhashableText]
              ELSE [session EXCEPT
                      !.jobs_rows = rows \o items,
                      !.jobs_has_more = has_more,
                      !.jobs_next_after = jobs_next_after(has_more, data),
                      !.jobs_last_error = "",
                      !.jobs_loaded_once = TRUE]
        /\ last_call' = [op |-> "fetch_jobs", page |-> page, reset |-> reset,
                         raised |-> fails \/ raised]
        /\ UNCHANGED <<normVars, pollVars, n_fresh, pristine, upsert_log, running,
                       cache_log>>

\* _fetch_jobs(reset=reset), the server answering the list call with the
\* page, or failing it: the whole of lines 135-163
fetch_jobs(reset, page, fails) ==
    LET after == IF reset THEN None ELSE session.jobs_next_after
        page_dict == list_videos(page)
        data == py_or(dict_get(page_dict, "data", None), PList(<<>>)).v
        items == [i \in DOMAIN data |-> to_dict(data[i])]
        done == items_done(items)
        raised == done < Len(items)
        rows == IF reset THEN <<>> ELSE session.jobs_rows
        has_more == Truthy(dict_get(page_dict, "has_more", None))
    IN  /\ fn = "none"
        /\ running.name = "none"
        /\ Len(net) < MaxFetches
        /\ ~reset => session.jobs_has_more
        /\ net' = Append(net, [op |-> "list", after |-> after])
        /\ busy' = set_busy(FALSE)
        /\ jobs_cache' = IF fails THEN jobs_cache
                         ELSE cache_all(jobs_cache, SubSeq(items, 1, done))
        /\ history' = IF fails THEN history
                      ELSE upsert_all(history, SubSeq(items, 1, done))
        /\ session' =
              IF fails THEN [session EXCEPT !.jobs_last_error = TransportText]
              ELSE IF raised
              THEN [session EXCEPT
                      !.jobs_rows = rows \o SubSeq(items, 1, done + 1),
                      !.jobs_last_error = UnhashableText]
              ELSE [session EXCEPT
                      !.jobs_rows = rows \o items,
                      !.jobs_has_more = has_more,
                      !.jobs_next_after = jobs_next_after(has_more, data),
                      !.jobs_last_error = "",
                      !.jobs_loaded_once = TRUE]
        /\ last_call' = [op |-> "fetch_jobs", page |-> page, reset |-> reset,
                         raised |-> fails \/ raised]
        /\ UNCHANGED <<normVars, pollVars, n_fresh, pristine, upsert_log, running,
                       cache_log>>

NextPages ==
    \/ Call_list_videos_page
    \/ \E reset \in BOOLEAN, page \in Pages : fetch_jobs(reset, page, FALSE)
    \/ \E reset \in BOOLEAN : fetch_jobs(reset, None, TRUE)

SpecPages == InitPages /\ [][NextPages]_vars

\* the server's answer as the claims read it: its jobs, and its has_more
\* signal
ServerData(page) ==
    IF "data" \in DOMAIN page.v[1] /\ page.v[1]["data"].t = "list"
    THEN page.v[1]["data"].v ELSE <<>>

ServerHasMore(page) ==
    "has_more" \in DOMAIN page.v[1] /\ page.v[1]["has_more"] = PBool(TRUE)

\* the id of the last job of the page, None for an empty page
LastId(page) ==
    LET jobs == ServerData(page)
    IN  IF jobs = <<>> \/ "id" \notin DOMAIN jobs[Len(jobs)].v THEN None
        ELSE jobs[Len(jobs)].v["id"]

\* list_videos_page returned the jobs of the page, the id of the last of
\* them as the cursor, and the server's has_more
PageCallAgrees ==
    (fn = "list_videos_page" /\ ret # Pending) =>
        /\ ret.items = ServerData(arg)
        /\ ret.next_after = LastId(arg)
        /\ ret.has_more = ServerHasMore(arg)

\* a fetch of the Jobs page went through
Fetched == last_call.op = "fetch_jobs" /\ ~last_call.raised

\* C18 as stated: list_videos_page, and a fetch of the Jobs page as well,
\* yield as cursor the id of the last job of the page, none for an empty
\* page, and as has_more the server's signal, false when it is missing.
C18_AsStated ==
    /\ PageCallAgrees
    /\ Fetched =>
          /\ session.jobs_next_after = LastId(last_call.page)
          /\ session.jobs_has_more = ServerHasMore(last_call.page)

\* C18: list_videos_page yields as cursor the id of the last job of the
\* page, none for an empty page, and as has_more the server's signal,
\* false when it is missing.  A fetch of the Jobs page sets jobs_has_more
\* in the same way, and jobs_next_after to the id of the last job only
\* when the server's has_more is true, to none otherwise.
C18_CursorRule ==
    /\ PageCallAgrees
    /\ Fetched =>
          /\ session.jobs_has_more = ServerHasMore(last_call.page)
          /\ session.jobs_next_after =
                IF ServerHasMore(last_call.page) THEN LastId(last_call.page) ELSE None

\* the Jobs page loaded more: a page of two jobs with no has_more signal,
\* asked for after the job "a", left no cursor
C18_Witness ==
    /\ Fetched
    /\ ~last_call.reset
    /\ ServerData(last_call.page) = <<ItemA, ItemB>>
    /\ "has_more" \notin DOMAIN last_call.page.v[1]
    /\ net[2] = [op |-> "list", after |-> PStr(<<"a">>)]
    /\ session.jobs_next_after = None
    /\ ~session.jobs_has_more
    /\ Len(session.jobs_rows) = 3

(***************************************************************************)
(* pages/create.py and pages/jobs.py: the handlers of the Generate, Resume *)
(* polling and Open buttons.  Streamlit runs the callbacks of a session on *)
(* its one script thread: a click made while a handler runs waits until    *)
(* the handler has returned.                                               *)
(***************************************************************************)
\* how many handler runs are followed, and how many turns of one poll
MaxRuns == 2

MaxTicks == 2

\* the messages of _validate_inputs
NoKeyText == "Add your OpenAI API key in the sidebar before generating."

NoPromptText == "Prompt cannot be empty."

BadDurationText == "Duration must be between 2 and 25 seconds."

\* the messages of the exceptions the submit handler catches
NoIdText == "No video id returned from create()."

JobFailedText == "Video job failed."

\* the same without the test of the duration
validate_inputs_any_duration(api_key, prompt, duration) ==
    IF api_key = <<>> THEN NoKeyText
    ELSE IF strip(prompt) = <<>> THEN NoPromptText
    ELSE ""

\* create.py lines 72-81: the message of the first check that fails, ""
\* for None
validate_inputs(api_key, prompt, duration) ==
    IF api_key = <<>> THEN NoKeyText
    ELSE IF strip(prompt) = <<>> THEN NoPromptText
    ELSE IF duration < 2 \/ duration > 25 THEN BadDurationText
    ELSE ""

\* what the form holds when Generate is pressed: the key of the sidebar,
\* the prompt, and the duration (the slider keeps it within 2..25; the
\* handler checks it all the same)
ApiKeys == { <<>>, <<"s", "k">> }

TypedPrompts == { <<>>, <<" ", " ">>, <<" ", "a", " ", " ", "b">> }

Durations == { 1, 2, 25, 26 }

\* the script thread: the handler it is in and where, the locals of the
\* handler (the id polled, the prompt, the turns of the poll made), the
\* handler runs so far, the click that waits for the thread, the disabled=
\* the buttons were last rendered with, and the toast the last handler
\* ended with (toast_success, toast_error, toast_warning of lib/ui.py)
Frame(name, at, job_id, prompt, polls, runs, queued, disabled) ==
    [name |-> name, at |-> at, job_id |-> job_id, prompt |-> prompt, polls |-> polls,
     runs |-> runs, queued |-> queued, disabled |-> disabled, toast |-> "none"]

\* the thread after a handler has returned and the page was rendered again
AtRest(runs, queued, flag) == Frame("none", "idle", None, None, 0, runs, queued, flag)

InitSession ==
    /\ NormIdle
    /\ PollIdle
    /\ HistoryEmpty
    /\ busy = FALSE
    /\ jobs_cache = <<>>
    /\ session = SessionDefaults
    /\ running = AtRest(0, "none", FALSE)
    /\ net = <<>>
    /\ cache_log = <<>>

\* the handlers that poll, and the one that does not
Buttons == { "submit", "resume", "open" }

\* the user presses a button that was rendered enabled; the click waits
\* for the script thread
click(button) ==
    /\ running.queued = "none"
    /\ ~running.disabled
    /\ running.runs < MaxRuns
    /\ running' = [running EXCEPT !.queued = button]
    /\ UNCHANGED <<normVars, pollVars, histVars, busy, jobs_cache, session, net, cache_log>>

\* a handler is entered: what is noted of it
NoteHandler(op, api_key, prompt, duration) ==
    /\ last_call' = [op |-> op, api_key |-> api_key, prompt |-> prompt,
                     duration |-> duration]
    /\ UNCHANGED <<n_fresh, pristine, upsert_log>>

\* create.py lines 89-98: _submit_generation up to the payload; with an
\* error of validation the handler returns here
submit_start(api_key, prompt, duration) ==
    LET error == validate_inputs(api_key, prompt, duration)
    IN  /\ running.name = "none"
        /\ running.queued = "submit"
        /\ NoteHandler("submit", api_key, prompt, duration)
        /\ session' = [session EXCEPT !.create_validation_error = error]
        /\ busy' = IF error # "" THEN busy ELSE set_busy(TRUE)
        /\ running' =
              IF error # ""
              THEN [AtRest(running.runs + 1, "none", is_busy) EXCEPT !.toast = "warning"]
              ELSE Frame("submit", "create", None, PStr(strip(prompt)), 0,
                         running.runs + 1, "none", running.disabled)
        /\ UNCHANGED <<normVars, pollVars, history, jobs_cache, net, cache_log>>

InProgress == PStr(<<"i", "n", "_", "p", "r", "o", "g", "r", "e", "s", "s">>)

Failed == PStr(<<"f", "a", "i", "l", "e", "d">>)

\* an SDK model of a job as the server answers create and retrieve calls
Answer(id, status, progress, url) ==
    PObj(MakeDict({ <<"id", id>>, <<"status", status>>, <<"progress", progress>>,
                    <<"download_url", url>> }).v, "ok")

\* what the server may answer a create call with: a queued job, or a
\* payload without an id
CreateAnswers == { Answer(VideoId, Queued, PInt(0), Absent), Answer(Absent, Queued, Absent, Absent) }

\* what it may answer a retrieve call with: the job under way, with a
\* progress of 40 or of 150, completed with or without a url, or failed
RetrieveAnswers ==
    { Answer(VideoId, InProgress, PInt(40), Absent),
      Answer(VideoId, InProgress, PInt(150), Absent),
      Answer(VideoId, Completed, PInt(100), HttpA),
      Answer(VideoId, Completed, Absent, Absent),
      Answer(VideoId, Failed, PInt(40), Absent) }

\* the same without the finally clause
handler_returns_still_busy ==
    /\ busy' = busy
    /\ running' = AtRest(running.runs, running.queued, FALSE)

\* the finally clause of a handler, after the toast of its try or except
\* clause, and the page rendered after it: the buttons get
\* disabled=is_busy() as the flag then is
handler_ends(toast) ==
    /\ busy' = set_busy(FALSE)
    /\ running' = [AtRest(running.runs, running.queued, set_busy(FALSE))
                      EXCEPT !.toast = toast]

\* a handler gets through its try clause (create.py lines 166, 174-176)
handler_returns == handler_ends("success")

\* the except clause of _submit_generation: create_validation_error is
\* the text of the exception; the handlers of the Jobs page only toast
handler_catches(text) ==
    /\ session' = IF running.name = "submit"
                  THEN [session EXCEPT !.create_validation_error = text]
                  ELSE session
    /\ handler_ends("error")

\* the calls of the poll of this handler so far, and the last answer
poll_starts ==
    /\ calls' = 0
    /\ fetched' = <<>>
    /\ UNCHANGED <<pc, on_tick_given, ticks, result, err>>

\* create.py lines 113-116: get_openai_client raises (a base URL or a
\* proxy setting the client cannot be built with).  The call stands
\* before the try clause: the exception leaves the handler, the finally
\* clause is not reached, and the page is next rendered with the flag set
submit_client_raises ==
    /\ running.name = "submit"
    /\ running.at = "create"
    /\ running' = AtRest(running.runs, running.queued, is_busy)
    /\ UNCHANGED <<normVars, pollVars, histVars, busy, jobs_cache, session, net,
                   cache_log>>

\* create.py lines 121-127: the create call answered, the id taken, the
\* job cached and put into the history
submit_create(job) ==
    LET job_dict == to_dict(job)
        job_id == py_or(safe_get_id(job), dict_get(job_dict, "id", None))
    IN  /\ running.name = "submit"
        /\ running.at = "create"
        /\ net' = Append(net, [op |-> "create", id |-> None])
        /\ IF ~Truthy(job_id)
           THEN /\ handler_catches(NoIdText)
                /\ UNCHANGED <<jobs_cache, history>>
           ELSE IF cache_job_raises(job_dict)
           THEN /\ handler_catches(UnhashableText)
                /\ UNCHANGED <<jobs_cache, history>>
           ELSE /\ jobs_cache' = cache_job(jobs_cache, job_dict)
                /\ history' = upsert_video_history(history, job_dict, running.prompt,
                                                   "generate")
                /\ running' = [running EXCEPT !.at = "polling", !.job_id = job_id]
                /\ UNCHANGED <<busy, session>>
        /\ poll_starts
        /\ UNCHANGED <<normVars, n_fresh, last_call, pristine, upsert_log, cache_log>>

\* create.py line 121: the create call raises
submit_create_raises ==
    /\ running.name = "submit"
    /\ running.at = "create"
    /\ net' = Append(net, [op |-> "create", id |-> None])
    /\ handler_catches(TransportText)
    /\ UNCHANGED <<normVars, pollVars, histVars, jobs_cache, cache_log>>

\* jobs.py lines 290-294: _handle_resume_polling up to the poll
resume_start(selected_id) ==
    /\ running.name = "none"
    /\ running.queued = "resume"
    /\ NoteHandler("resume", <<>>, <<>>, 0)
    /\ busy' = set_busy(TRUE)
    /\ running' = Frame("resume", "polling", selected_id, None, 0, running.runs + 1,
                        "none", running.disabled)
    /\ poll_starts
    /\ UNCHANGED <<normVars, history, jobs_cache, session, net, cache_log>>

\* jobs.py lines 256-262: the rows with the first row of the job's id
\* replaced by the job, or with the job put first when there is none
rows_with(rows, job_dict) ==
    LET same == { i \in DOMAIN rows :
                    dict_get(rows[i], "id", None) = dict_get(job_dict, "id", None) }
        first == CHOOSE i \in same : \A j \in same : i <= j
    IN  IF same = {} THEN <<job_dict>> \o rows
        ELSE [i \in DOMAIN rows |-> IF i = first THEN job_dict ELSE rows[i]]

\* jobs.py lines 252-262: _update_selected_job
update_selected_job(sess, job_dict) ==
    [sess EXCEPT !.jobs_selected_job = job_dict,
                 !.jobs_selected_media_url = extract_asset_url(job_dict),
                 !.jobs_selected_media_bytes = None,
                 !.jobs_rows = rows_with(@, job_dict)]

\* the calls on the client after a poll has returned the final record:
\* the submit handler downloads the media when the record has no url
calls_after(final_dict) ==
    IF running.name = "submit" /\ extract_asset_url(final_dict) = None
    THEN <<[op |-> "download_content", id |-> running.job_id]>>
    ELSE <<>>

\* what the handler stores when its poll has returned (create.py lines
\* 162-165, jobs.py line 311)
stored_after(final_dict) ==
    IF running.name = "submit"
    THEN [session EXCEPT !.create_last_job = final_dict]
    ELSE update_selected_job(session, final_dict)

\* one turn of poll_until_complete in a handler: the retrieve call, the
\* tick (create.py lines 132-139, jobs.py lines 296-303), which the handler
\* catches when cache_job raises in it, and then what the status says:
\* another turn, the failure caught, or the final record cached, put into
\* the history and stored (create.py lines 143-169, jobs.py lines 306-311)
poll_tick(job) ==
    LET job_dict == to_dict(job)
        broken == cache_job_raises(job_dict)
        outcome == poll_outcome(job_dict)
        ticked == upsert_video_history(history, job_dict, running.prompt, "poll")
    IN  /\ running.at = "polling"
        /\ running.polls < MaxTicks
        /\ jobs_cache' = cache_job(jobs_cache, job_dict)
        /\ history' = IF broken THEN history
                      ELSE IF outcome = "returned"
                      THEN upsert_video_history(ticked, job_dict, running.prompt, "complete")
                      ELSE ticked
        /\ net' = Append(net, [op |-> "retrieve", id |-> running.job_id])
                    \o (IF ~broken /\ outcome = "returned" THEN calls_after(job_dict)
                        ELSE <<>>)
        /\ CASE broken -> handler_catches(UnhashableText)
             [] ~broken /\ outcome = "polling" ->
                    /\ running' = [running EXCEPT !.polls = @ + 1]
                    /\ UNCHANGED <<busy, session>>
             [] ~broken /\ outcome = "raised" -> handler_catches(JobFailedText)
             [] ~broken /\ outcome = "returned" ->
                    /\ session' = stored_after(job_dict)
                    /\ handler_returns
        /\ calls' = calls + 1
        /\ fetched' = <<job_dict>>
        /\ UNCHANGED <<pc, on_tick_given, ticks, result, err>>
        /\ UNCHANGED <<normVars, n_fresh, last_call, pristine, upsert_log, cache_log>>

\* the same with the handler undoing what it stored of the job
poll_tick_raises_rolls_back ==
    /\ running.at = "polling"
    /\ running.polls < MaxTicks
    /\ net' = Append(net, [op |-> "retrieve", id |-> running.job_id])
    /\ handler_catches(TransportText)
    /\ calls' = calls + 1
    /\ fetched' = <<>>
    /\ jobs_cache' = [k \in DOMAIN jobs_cache \ {running.job_id} |-> jobs_cache[k]]
    /\ history' = remove_video_from_history(history, running.job_id)
    /\ UNCHANGED <<pc, on_tick_given, ticks, result, err>>
    /\ UNCHANGED <<normVars, n_fresh, last_call, pristine, upsert_log, cache_log>>

\* the retrieve call of a turn raises, and the handler catches it
poll_tick_raises ==
    /\ running.at = "polling"
    /\ running.polls < MaxTicks
    /\ net' = Append(net, [op |-> "retrieve", id |-> running.job_id])
    /\ handler_catches(TransportText)
    /\ calls' = calls + 1
    /\ fetched' = <<>>
    /\ UNCHANGED <<pc, on_tick_given, ticks, result, err>>
    /\ UNCHANGED <<normVars, histVars, jobs_cache, cache_log>>

\* jobs.py lines 272-287: _handle_open, the server answering the retrieve
\* call with the job, or failing it
handle_open(selected_id, job, fails) ==
    LET job_dict == to_dict(job)
    IN  /\ running.name = "none"
        /\ running.queued = "open"
        /\ NoteHandler("open", <<>>, <<>>, 0)
        /\ net' = Append(net, [op |-> "retrieve", id |-> selected_id])
        /\ busy' = set_busy(FALSE)
        /\ running' = [AtRest(running.runs + 1, "none", set_busy(FALSE))
                          EXCEPT !.toast = IF fails THEN "error" ELSE "success"]
        /\ jobs_cache' = IF fails THEN jobs_cache ELSE cache_job(jobs_cache, job_dict)
        /\ history' = IF fails THEN history
                      ELSE upsert_video_history(history, job_dict, None, "open")
        /\ session' = IF fails THEN session ELSE update_selected_job(session, job_dict)
        /\ UNCHANGED <<normVars, pollVars, cache_log>>

NextSession ==
    \/ \E button \in Buttons : click(button)
    \/ \E api_key \in ApiKeys, prompt \in TypedPrompts, duration \in Durations :
          submit_start(api_key, prompt, duration)
    \/ \E job \in CreateAnswers : submit_create(job)
    \/ submit_client_raises
    \/ submit_create_raises
    \/ resume_start(VideoId)
    \/ \E job \in RetrieveAnswers : poll_tick(job)
    \/ poll_tick_raises
    \/ \E job \in RetrieveAnswers : handle_open(VideoId, job, FALSE)
    \/ handle_open(VideoId, None, TRUE)

SpecSession == InitSession /\ [][NextSession]_vars

\* a handler is entered in this step
HandlerEntered == running'.runs # running.runs

\* the calls this step makes on the client
NewCalls == SubSeq(net', Len(net) + 1, Len(net'))

\* C11: while a poll is under way the busy flag is set and the poll is
\* that of the one handler the script thread is in; a handler is entered
\* only when no handler is running, so that no second poll starts before
\* the first has ended; every retrieve call made while a handler polls is
\* that handler's; and the step that ends a poll clears the busy flag.
C11_State ==
    running.at = "polling" => (busy /\ running.name \in {"submit", "resume"})

C11_Step ==
    /\ HandlerEntered => running.name = "none"
    /\ (running.at = "polling" /\ running'.at = "polling") =>
          /\ running'.name = running.name
          /\ running'.job_id = running.job_id
          /\ \A i \in DOMAIN NewCalls :
                NewCalls[i] = [op |-> "retrieve", id |-> running.job_id]
    /\ (running.at = "polling" /\ running'.at # "polling") => ~busy'

C11_OnePollInFlight == [](C11_State) /\ [][C11_Step]_vars

\* the poll of the submit handler has made a turn, and a click on Resume
\* polling waits for it to end
C11_Witness ==
    /\ running.name = "submit"
    /\ running.at = "polling"
    /\ running.polls >= 1
    /\ running.queued = "resume"
    /\ busy

\* the inputs fail validation: no key, a prompt of whitespace only, or a
\* duration outside 2..25
Invalid(call) ==
    \/ call.api_key = <<>>
    \/ \A i \in DOMAIN call.prompt : call.prompt[i] = " "
    \/ call.duration < 2
    \/ call.duration > 25

\* C15: when the submit handler is entered with inputs that fail
\* validation, it records an error and returns: no call is made on the
\* client, and the busy flag, the job cache and the history stay as they
\* were.
C15_Step ==
    (HandlerEntered /\ last_call'.op = "submit" /\ Invalid(last_call')) =>
        /\ session'.create_validation_error
              \in {NoKeyText, NoPromptText, BadDurationText}
        /\ running'.name = "none"
        /\ net' = net
        /\ busy' = busy
        /\ jobs_cache' = jobs_cache
        /\ history' = history

C15_InvalidSubmitIsLocal == [][C15_Step]_vars

\* after a job was generated, a submit with a duration of 26 was refused
C15_Witness ==
    /\ last_call.op = "submit"
    /\ last_call.api_key # <<>>
    /\ last_call.prompt = <<" ", "a", " ", " ", "b">>
    /\ last_call.duration = 26
    /\ running.name = "none"
    /\ running.runs = 2
    /\ session.create_validation_error = BadDurationText
    /\ Len(net) >= 2
    /\ VideoId \in DOMAIN jobs_cache
    /\ Len(history) = 1
    /\ ~busy

\* the progress a cached record carries is within [0,100]
ProgressWithin(job_dict) ==
    "progress" \in DOMAIN job_dict.v =>
        /\ job_dict.v["progress"].t = "int"
        /\ job_dict.v["progress"].v >= 0
        /\ job_dict.v["progress"].v <= 100

\* C19 as stated: after any create, poll-tick and open operations, no
\* record of the job cache carries a progress below 0 or above 100.
C19_AsStated == \A id \in DOMAIN jobs_cache : ProgressWithin(jobs_cache[id])

\* a tick of the submit handler cached a record with a progress of 150
C19_Witness ==
    /\ running.name = "submit"
    /\ running.at = "polling"
    /\ VideoId \in DOMAIN jobs_cache
    /\ jobs_cache[VideoId].v["progress"] = PInt(150)
    /\ get_progress_percent(jobs_cache[VideoId]) = PInt(100)

(***************************************************************************)
(* lib/api.py: the status-based fallback of get_progress_percent           *)
(***************************************************************************)
\* the field yields no number: it is absent, None or a list, or int() of
\* it raises (a str that is no integer, nan, inf)
NoNumber(x) == ~IsIntFloatStr(x) \/ py_int(x) = Raised

\* the status is a str whose lower case is succeeded, completed or complete
SuccessStatus(job) ==
    LET status == dict_get(job, "status", Absent)
    IN  status.t = "str" /\ lower(status.v) \in SuccessAliases

\* C24: when neither progress nor percent_complete yields a number,
\* get_progress_percent returns 100 if the lower-cased status is one of
\* succeeded, completed, complete, and 0 for every other status, the
\* failure aliases and a missing or non-str status included.
C24_StatusFallback ==
    (/\ ProgressDone
     /\ NoNumber(dict_get(arg, "progress", None))
     /\ NoNumber(dict_get(arg, "percent_complete", None))) =>
        ret = IF SuccessStatus(arg) THEN PInt(100) ELSE PInt(0)

\* a payload with nan as progress, no percent_complete and the status
\* "COMPLETED" gave 100
C24_Witness ==
    /\ ProgressDone
    /\ dict_get(arg, "progress", None) = NaN
    /\ "percent_complete" \notin DOMAIN arg.v
    /\ dict_get(arg, "status", None) = PStr(<<"C", "O", "M", "P", "L", "E", "T", "E", "D">>)
    /\ ret = PInt(100)

(***************************************************************************)
(* pages/create.py and pages/jobs.py: what a poll leaves in the job cache  *)
(* and the history                                                         *)
(***************************************************************************)
\* a turn of a handler's poll got an answer in this step
TickStep == running.at = "polling" /\ calls' = calls + 1 /\ fetched' # <<>>

\* the poll of a handler ends in this step with the handler's except clause
FailedPollStep ==
    /\ running.at = "polling"
    /\ running'.name = "none"
    /\ running'.toast = "error"

\* C21: when a poll of the submit or the resume handler ends in failure,
\* every key of the job cache and every id of the history stays; an entry
\* differs afterwards only where the tick of the failing turn stored the
\* answer it had fetched, and a transport error changes neither the cache
\* nor the history.
C21_Step ==
    FailedPollStep =>
        /\ \A id \in DOMAIN jobs_cache :
              /\ id \in DOMAIN jobs_cache'
              /\ jobs_cache'[id] # jobs_cache[id] => fetched' = <<jobs_cache'[id]>>
        /\ \A i \in DOMAIN history :
              \E j \in DOMAIN history' :
                 /\ history'[j].id = history[i].id
                 /\ history'[j] # history[i] =>
                       /\ fetched' # <<>>
                       /\ j = 1
                       /\ history'[j].status = dict_get(fetched'[1], "status", None)
        /\ fetched' = <<>> => (jobs_cache' = jobs_cache /\ history' = history)

C21_NoRollback == [][C21_Step]_vars

\* the poll of the submit handler fetched the job at 40 percent, then a
\* retrieve call raised: the record of the first turn is still cached
C21_Witness ==
    /\ running.name = "none"
    /\ running.toast = "error"
    /\ last_call.op = "submit"
    /\ session.create_validation_error = TransportText
    /\ calls = 2
    /\ fetched = <<>>
    /\ VideoId \in DOMAIN jobs_cache
    /\ jobs_cache[VideoId] = to_dict(Answer(VideoId, InProgress, PInt(40), Absent))
    /\ Len(history) = 1
    /\ history[1].source = "poll"

\* C22 as stated: whenever no handler is running, the busy flag is false.
C22_AsStated == running.name = "none" => ~busy

\* the submit handler was left by the exception of get_openai_client: the
\* flag is set, no handler is running, and no call was made on the client
C22_Witness ==
    /\ last_call.op = "submit"
    /\ running.name = "none"
    /\ running.runs = 1
    /\ running.disabled
    /\ busy
    /\ net = <<>>

\* C23: after each tick of a handler's poll whose answer has a non-empty
\* id, the job cache maps that id to the answer and the first entry of
\* the history has that id and the status of the answer; when the poll
\* ends, by returning or by the failure of the job, the cached record of
\* the job polled is the answer fetched last.
C23_Step ==
    TickStep =>
        LET job_dict == fetched'[1]
            id == dict_get(job_dict, "id", None)
        IN  /\ Truthy(id) =>
                  /\ id \in DOMAIN jobs_cache'
                  /\ jobs_cache'[id] = job_dict
                  /\ history' # <<>>
                  /\ history'[1].id = PStr(py_str(id))
                  /\ history'[1].status = dict_get(job_dict, "status", None)
            /\ running'.at # "polling" =>
                  /\ running.job_id \in DOMAIN jobs_cache'
                  /\ jobs_cache'[running.job_id] = job_dict

C23_TickStoresAnswer == [][C23_Step]_vars

\* the poll of the resume handler fetched the job at 40 percent and then
\* completed: the cache holds the completed record
C23_Witness ==
    /\ last_call.op = "resume"
    /\ running.name = "none"
    /\ running.toast = "success"
    /\ calls = 2
    /\ fetched = <<to_dict(Answer(VideoId, Completed, PInt(100), HttpA))>>
    /\ jobs_cache[VideoId] = fetched[1]
    /\ history[1].id = VideoId
    /\ history[1].status = Completed
    /\ history[1].source = "complete"

(***************************************************************************)
(* pages/jobs.py: a failed fetch, and the cursor of the Jobs table         *)
(***************************************************************************)
\* a fetch of the Jobs page is made in this step
FetchStep == Len(net') = Len(net) + 1 /\ net'[Len(net')].op = "list"

\* C28: when the list call of a fetch raises, jobs_rows, jobs_has_more,
\* jobs_next_after, the job cache and the history stay as they were, also
\* for a reset fetch, jobs_last_error is the text of the error and is not
\* empty, and the busy flag is clear; a fetch that gets through leaves
\* jobs_last_error empty.
C28_Step ==
    /\ (FetchStep /\ last_call'.page = None) =>
          /\ session'.jobs_rows = session.jobs_rows
          /\ session'.jobs_has_more = session.jobs_has_more
          /\ session'.jobs_next_after = session.jobs_next_after
          /\ jobs_cache' = jobs_cache
          /\ history' = history
          /\ session'.jobs_last_error = TransportText
          /\ session'.jobs_last_error # ""
          /\ ~busy'
    /\ (FetchStep /\ ~last_call'.raised) => session'.jobs_last_error = ""

C28_FailedFetchKeepsState == [][C28_Step]_vars

\* a first fetch brought two rows, and the list call of a reset fetch
\* then raised: the rows are still there
C28_Witness ==
    /\ last_call.op = "fetch_jobs"
    /\ last_call.reset
    /\ last_call.page = None
    /\ Len(net) = 2
    /\ session.jobs_rows = <<ItemA, ItemB>>
    /\ session.jobs_has_more
    /\ session.jobs_next_after = PStr(<<"b">>)
    /\ session.jobs_last_error = TransportText

\* C27 as stated: in every state with jobs_has_more true, jobs_next_after
\* is the id of the last row fetched, so that a load-more does not ask for
\* the first page again.
C27_AsStated ==
    session.jobs_has_more =>
        /\ session.jobs_rows # <<>>
        /\ session.jobs_next_after # None
        /\ session.jobs_next_after =
              dict_get(session.jobs_rows[Len(session.jobs_rows)], "id", None)

\* an empty page came with has_more true: jobs_has_more is set with no
\* cursor, and the load-more that followed asked for the first page again
C27_Witness ==
    /\ Len(net) = 2
    /\ net[1] = [op |-> "list", after |-> None]
    /\ net[2] = [op |-> "list", after |-> None]
    /\ last_call.op = "fetch_jobs"
    /\ ~last_call.reset
    /\ ~last_call.raised
    /\ ServerData(last_call.page) = <<ItemA, ItemB>>
    /\ session.jobs_rows = <<ItemA, ItemB>>

(***************************************************************************)
(* pages/jobs.py: the table, the selection, and the Download MP4, Delete,  *)
(* Confirm delete and Cancel buttons                                       *)
(***************************************************************************)
\* how many downloads are followed
MaxDownloads == 1

\* a job whose id the server gives as an int
Item7 == JobWith(PInt(7), Completed)

\* the pages the table is filled from
JobsPages ==
    { PObj(MakeDict({ <<"data", PList(d)>>, <<"has_more", PBool(FALSE)>> }).v, "ok") :
        d \in { <<ItemA, Item7>>, <<ItemB>> } }

InitJobs ==
    /\ NormIdle
    /\ PollIdle
    /\ HistoryEmpty
    /\ SessionIdle

\* jobs.py line 227: the ids of the rows, the empty ones left out
job_ids(rows) ==
    { id \in { dict_get(rows[i], "id", PStr(<<>>)) : i \in DOMAIN rows } : Truthy(id) }

\* jobs.py lines 209-246: the page is rendered with the id chosen in the
\* select box, among the ids of the rows; the row of that id becomes
\* jobs_selected_job
select_job(id) ==
    LET rows == session.jobs_rows
        found == { i \in DOMAIN rows : dict_get(rows[i], "id", None) = id }
        first == CHOOSE i \in found : \A j \in found : i <= j
    IN  /\ running.name = "none"
        /\ id \in job_ids(rows)
        /\ session' = [session EXCEPT !.jobs_selected_id = id,
                                      !.jobs_selected_job = rows[first]]
        /\ NoteCall("select", id, FALSE)
        /\ UNCHANGED <<normVars, pollVars, history, busy, jobs_cache, running, net,
                       cache_log>>

\* jobs.py lines 238, 267: the buttons of the actions are there for the
\* selected id; with an empty table the id selected last is kept
Rendered ==
    /\ running.name = "none"
    /\ Truthy(session.jobs_selected_id)
    /\ \/ session.jobs_rows = <<>>
       \/ session.jobs_selected_id \in job_ids(session.jobs_rows)

\* the bytes of a rendered video
Mp4 == PBytes(<<0, 1>>)

\* jobs.py lines 319-337: _handle_download, the server answering the
\* download call with the bytes, or failing it
handle_download(selected_id, fails) ==
    /\ Calls("download_content") < MaxDownloads
    /\ busy' = set_busy(FALSE)
    /\ net' = Append(net, [op |-> "download_content", id |-> selected_id])
    /\ session' =
          IF fails THEN session
          ELSE [session EXCEPT
                  !.jobs_download_payload =
                      [id |-> selected_id, bytes |-> Mp4,
                       file_name |-> py_str(selected_id) \o <<".", "m", "p", "4">>],
                  !.jobs_selected_media_bytes = Mp4]
    /\ NoteCall("download", selected_id, fails)
    /\ UNCHANGED <<normVars, pollVars, history, jobs_cache, running, cache_log>>

\* jobs.py lines 342-354, 395-400: the clicks on the buttons rendered for
\* the selected id
click_download(fails) == Rendered /\ handle_download(session.jobs_selected_id, fails)

click_delete == Rendered /\ handle_delete(session.jobs_selected_id)

click_cancel == Rendered /\ cancel_delete(session.jobs_selected_id)

click_confirm(fails) == Rendered /\ execute_delete(session.jobs_selected_id, fails)

NextJobs ==
    \/ \E page \in JobsPages : fetch_jobs(TRUE, page, FALSE)
    \/ \E id \in { PStr(<<"a">>), PStr(<<"b">>), PInt(7) } : select_job(id)
    \/ \E fails \in BOOLEAN : click_download(fails)
    \/ click_delete
    \/ click_cancel
    \/ \E fails \in BOOLEAN : click_confirm(fails)

SpecJobs == InitJobs /\ [][NextJobs]_vars

\* C25: a delete call is made only for the selected id and only while
\* jobs_pending_delete holds that id; jobs_pending_delete gets an id only
\* by a click on Delete, which makes no call; after the confirm handler,
\* whether the delete call returned or raised, and after Cancel, which
\* makes no call, jobs_pending_delete is None.
C25_Step ==
    /\ \A i \in DOMAIN NewCalls :
          NewCalls[i].op = "delete" =>
             /\ Truthy(NewCalls[i].id)
             /\ NewCalls[i].id = session.jobs_selected_id
             /\ NewCalls[i].id = session.jobs_pending_delete
    /\ last_call'.op = "delete" => session'.jobs_pending_delete = None
    /\ last_call'.op = "cancel" => (session'.jobs_pending_delete = None /\ net' = net)
    /\ (session'.jobs_pending_delete # session.jobs_pending_delete
            /\ session'.jobs_pending_delete # None) =>
          /\ last_call'.op = "delete_click"
          /\ session'.jobs_pending_delete = session.jobs_selected_id
          /\ net' = net

C25_TwoStepDelete == [][C25_Step]_vars

\* Delete was clicked for the job "a" and confirmed, and the delete call
\* raised: the job is still in the table and nothing is pending
C25_Witness ==
    /\ last_call = [op |-> "delete", id |-> PStr(<<"a">>), raised |-> TRUE]
    /\ net[Len(net)] = [op |-> "delete", id |-> PStr(<<"a">>)]
    /\ session.jobs_pending_delete = None
    /\ PStr(<<"a">>) \in job_ids(session.jobs_rows)
    /\ ~busy

\* C26 as stated: after a delete of the job j that got through, j is
\* neither in the history nor in jobs_rows, and the selected job and a
\* download payload of j are cleared; when the delete call raised, the
\* history, jobs_rows, the selected job and the download payload are as
\* they were.
C26_Step ==
    LET j == last_call'.id
    IN  /\ (last_call'.op = "delete" /\ ~last_call'.raised) =>
              /\ PStr(py_str(j)) \notin Ids(history')
              /\ j \notin job_ids(session'.jobs_rows)
              /\ session'.jobs_selected_job = None
              /\ \/ session'.jobs_download_payload = None
                 \/ session'.jobs_download_payload.id # j
        /\ (last_call'.op = "delete" /\ last_call'.raised) =>
              /\ history' = history
              /\ session'.jobs_rows = session.jobs_rows
              /\ session'.jobs_selected_job = session.jobs_selected_job
              /\ session'.jobs_download_payload = session.jobs_download_payload

C26_AsStated == [][C26_Step]_vars

\* the job of the int id 7 was downloaded and deleted: its row, the
\* selected job and its payload are gone, and the history still has "7"
C26_Witness ==
    /\ last_call = [op |-> "delete", id |-> PInt(7), raised |-> FALSE]
    /\ PInt(7) \notin job_ids(session.jobs_rows)
    /\ session.jobs_selected_job = None
    /\ session.jobs_download_payload = None
    /\ Calls("download_content") = 1
    /\ PStr(<<"7">>) \in Ids(history)

====
